---- MODULE Spec2Model ----
(***************************************************************************)
(* Monthly bill lifecycle: the Bill aggregate (fees/domain/bill.go), the   *)
(* Money value it totals (libs/money/money.go) and the long-lived          *)
(* MonthlyFeeAccrualWorkflow that owns one Bill                            *)
(* (fees/app/workflows/monthly_bill.go).                                   *)
(*                                                                         *)
(* Modelling conventions                                                   *)
(*  - a Go string is a TLA+ string, except BillingPeriod, CustomerID and   *)
(*    BillID, which are tuples of one-character strings so that the        *)
(*    YYYY-MM pattern can be matched character by character and the Bill   *)
(*    id can be put together from its parts; the empty one is <<>>;        *)
(*  - a time.Time is a positive integer, a *time.Time is a tuple that is   *)
(*    empty for nil and <<t>> when set;                                    *)
(*  - a decimal.Decimal is an integer number of thousandths: decimal       *)
(*    addition is exact, so it is integer addition on that scale;          *)
(*  - an error is a string naming the sentinel errors.Is matches, "nil"    *)
(*    for no error.                                                        *)
(***************************************************************************)
EXTENDS Integers, Sequences, FiniteSets, TLC

VARIABLES
    bill,        \* the Bill under operation (domain.Bill)
    last,        \* the last Bill method called directly: its arguments, result and the Bill before it
    pc,          \* the workflow's position: "idle", "start", "select", "finalize", "done"
    params,      \* app.MonthlyFeeAccrualWorkflowParams of the workflow execution
    addItemCh,   \* signal channel SignalAddLineItem: payloads delivered and not yet received
    closeCh,     \* signal channel SignalCloseBill: number of signals delivered and not yet received
    sa,          \* the search attributes upserted so far
    ret,         \* what the workflow function returned: (domain.Bill, error)
    activity,    \* the Bills with which ProcessInvoiceAndChargeActivity was executed
    env,         \* the substrate: the time workflow.Now returns, the number of requests
                 \* (signals, queries, starts) clients have sent
    hist,        \* the run's history: the events processed with their timestamps, payloads
                 \* received, statuses passed, upserts attempted and failed, the
                 \* activity's outcome
    snapshot,    \* the BillDTO the last CurrentBillState query returned: <<>> or <<dto>>
    starts,      \* the StartMonthlyBill requests made for the Bill's id and their results
    uc,          \* the use case a client is running: its command, the calls it has made on
                 \* the Temporal port, what it has returned
    call         \* the last application of a function of the libraries: its name, its
                 \* arguments, its outcome

vars == <<bill, last, pc, params, addItemCh, closeCh, sa, ret, activity, env, hist,
          snapshot, starts, uc, call>>

wfvars == <<pc, params, addItemCh, closeCh, sa, ret, activity, env, hist, snapshot, starts,
            uc, call>>

-----------------------------------------------------------------------------
(* Bounds of the model                                                     *)

MaxKeys == 2        \* distinct non-empty idempotency keys in play
MaxSignals == 3     \* signals sent to one workflow execution

-----------------------------------------------------------------------------
(* Values                                                                  *)

Nil == "nil"

ErrInvalidTransition == "invalid status transition"
ErrGuardFailed == "status guard failed"
ErrEmptyIdempotencyKey == "empty idempotency key"
ErrBillNotOpen == "bill not open"

BillStatusUnknown == ""
BillStatusOpen == "OPEN"
BillStatusPending == "PENDING"
BillStatusClosed == "CLOSED"
BillStatusError == "ERROR"

BillStatuses ==
    {BillStatusUnknown, BillStatusOpen, BillStatusPending, BillStatusClosed, BillStatusError}

CurrencyNone == "None"
CurrencyUSD == "USD"
CurrencyGEL == "GEL"

KeyPool == <<"k1", "k2", "k3", "k4">>

Keys == {""} \cup {KeyPool[i] : i \in 1..MaxKeys}

\* what a caller charges: a description and a magnitude in thousandths (10.50, -0.005)
Charges == {[desc |-> "fee", value |-> 10500], [desc |-> "late fee", value |-> -5]}

CurrencyTags == {CurrencyNone, CurrencyUSD, CurrencyGEL}

\* the instants callers pass as "now"
Times == {1, 2}

Money(v, c) == [value |-> v, currency |-> c]

-----------------------------------------------------------------------------
(* libs/money                                                              *)

SupportedCurrency(currency) == currency = CurrencyGEL \/ currency = CurrencyUSD

\* NewResetCurrency as it would be if it kept the currency the value came with
NewResetCurrency_KeepsTag(v, c) == [value |-> v.value, currency |-> v.currency]

NewResetCurrency(v, c) == [value |-> v.value, currency |-> c]

NewFromInt(m, c) == [value |-> m * 1000, currency |-> c]

\* Money.Add with one operand: the receiver's currency is kept
Add(m, m2) == [value |-> m.value + m2.value, currency |-> m.currency]

\* Money.Cmp
Cmp(m, m2) == IF m.value < m2.value THEN -1 ELSE IF m.value = m2.value THEN 0 ELSE 1

\* what decimal.Decimal.Div does with a zero divisor
PanicDivisionByZero == "decimal division by 0"

\* Money.Div: the quotient of the two values in the currency of the receiver, with no test
\* of the divisor and no error result; decimal.Decimal.Div panics when the divisor is zero.
\* The outcome is the panic or the Money returned. Values are thousandths, so the
\* quotient in thousandths is m.value * 1000 / m2.value (exact for the arguments used).
Div(m, m2) ==
    IF m2.value = 0
    THEN [panic |-> PanicDivisionByZero, err |-> Nil, money |-> <<>>]
    ELSE [panic |-> Nil, err |-> Nil,
          money |-> <<Money((m.value * 1000) \div m2.value, m.currency)>>]

-----------------------------------------------------------------------------
(* fees/domain: the Bill aggregate                                         *)

\* the transition map as it would be with a way back from ERROR to PENDING
allowed_ErrorToPending ==
    [s \in BillStatuses |->
        CASE s = BillStatusOpen -> {BillStatusPending, BillStatusError}
          [] s = BillStatusPending -> {BillStatusClosed, BillStatusError}
          [] s = BillStatusClosed -> {}
          [] s = BillStatusUnknown -> {BillStatusError}
          [] s = BillStatusError -> {BillStatusError, BillStatusPending}]

allowed ==
    [s \in BillStatuses |->
        CASE s = BillStatusOpen -> {BillStatusPending, BillStatusError}
          [] s = BillStatusPending -> {BillStatusClosed, BillStatusError}
          [] s = BillStatusClosed -> {}
          [] s = BillStatusUnknown -> {BillStatusError}
          [] s = BillStatusError -> {BillStatusError}]

Res(b, e) == [bill |-> b, err |-> e]

IsActive(b) == b.Status = BillStatusOpen

IsReadyForInvoicing(b) == b.Status = BillStatusPending

\* Transition as it would be without the self-transition allowance
Transition_NoSelf(b, to) ==
    IF to \notin allowed[b.Status]
    THEN Res(b, ErrInvalidTransition)
    ELSE Res([b EXCEPT !.Status = to], Nil)

\* The only guard any caller passes (Pending's) returns nil, so no guard can fail.
Transition(b, to) ==
    LET selfTransition == b.Status = to IN
    IF ~selfTransition /\ to \notin allowed[b.Status]
    THEN Res(b, ErrInvalidTransition)
    ELSE Res([b EXCEPT !.Status = to], Nil)

HasKey(items, k) == \E i \in 1..Len(items) : items[i].IdempotencyKey = k

\* AddItem as it would be if the running total were not maintained
AddItem_NoTotal(b, idempotencyKey, description, amount, updatedAt) ==
    IF idempotencyKey = "" THEN Res(b, ErrEmptyIdempotencyKey)
    ELSE IF b.Status # BillStatusOpen THEN Res(b, ErrBillNotOpen)
    ELSE IF HasKey(b.Items, idempotencyKey) THEN Res(b, Nil)
    ELSE
        LET li == [IdempotencyKey |-> idempotencyKey,
                   Description |-> description,
                   Amount |-> NewResetCurrency(amount, b.Currency),
                   AddedAt |-> updatedAt]
        IN Res([b EXCEPT !.Items = Append(b.Items, li),
                         !.UpdatedAt = updatedAt], Nil)

\* AddItem as it would be without the scan for an existing key
AddItem_NoDedup(b, idempotencyKey, description, amount, updatedAt) ==
    IF idempotencyKey = "" THEN Res(b, ErrEmptyIdempotencyKey)
    ELSE IF b.Status # BillStatusOpen THEN Res(b, ErrBillNotOpen)
    ELSE
        LET li == [IdempotencyKey |-> idempotencyKey,
                   Description |-> description,
                   Amount |-> NewResetCurrency(amount, b.Currency),
                   AddedAt |-> updatedAt]
        IN Res([b EXCEPT !.Items = Append(b.Items, li),
                         !.Total = Add(b.Total, li.Amount),
                         !.UpdatedAt = updatedAt], Nil)

\* AddItem as it would be if an existing key refreshed the Bill's UpdatedAt
AddItem_TouchOnDuplicate(b, idempotencyKey, description, amount, updatedAt) ==
    IF idempotencyKey = "" THEN Res(b, ErrEmptyIdempotencyKey)
    ELSE IF b.Status # BillStatusOpen THEN Res(b, ErrBillNotOpen)
    ELSE IF HasKey(b.Items, idempotencyKey)
        THEN Res([b EXCEPT !.UpdatedAt = updatedAt], Nil)
    ELSE
        LET li == [IdempotencyKey |-> idempotencyKey,
                   Description |-> description,
                   Amount |-> NewResetCurrency(amount, b.Currency),
                   AddedAt |-> updatedAt]
        IN Res([b EXCEPT !.Items = Append(b.Items, li),
                         !.Total = Add(b.Total, li.Amount),
                         !.UpdatedAt = updatedAt], Nil)

\* AddItem as it would be if the scan for an existing key came before the status check
AddItem_DedupBeforeStatus(b, idempotencyKey, description, amount, updatedAt) ==
    IF idempotencyKey = "" THEN Res(b, ErrEmptyIdempotencyKey)
    ELSE IF HasKey(b.Items, idempotencyKey) THEN Res(b, Nil)
    ELSE IF b.Status # BillStatusOpen THEN Res(b, ErrBillNotOpen)
    ELSE
        LET li == [IdempotencyKey |-> idempotencyKey,
                   Description |-> description,
                   Amount |-> NewResetCurrency(amount, b.Currency),
                   AddedAt |-> updatedAt]
        IN Res([b EXCEPT !.Items = Append(b.Items, li),
                         !.Total = Add(b.Total, li.Amount),
                         !.UpdatedAt = updatedAt], Nil)

\* AddItem as it would be if Total were updated before the scan for an existing key
AddItem_TotalBeforeDedup(b, idempotencyKey, description, amount, updatedAt) ==
    IF idempotencyKey = "" THEN Res(b, ErrEmptyIdempotencyKey)
    ELSE IF b.Status # BillStatusOpen THEN Res(b, ErrBillNotOpen)
    ELSE
        LET li == [IdempotencyKey |-> idempotencyKey,
                   Description |-> description,
                   Amount |-> NewResetCurrency(amount, b.Currency),
                   AddedAt |-> updatedAt]
            b1 == [b EXCEPT !.Total = Add(b.Total, li.Amount)]
        IN IF HasKey(b.Items, idempotencyKey) THEN Res(b1, Nil)
           ELSE Res([b1 EXCEPT !.Items = Append(b.Items, li),
                               !.UpdatedAt = updatedAt], Nil)

\* AddItem as it would be if it put the new item at the head of the list
AddItem_Prepends(b, idempotencyKey, description, amount, updatedAt) ==
    IF idempotencyKey = "" THEN Res(b, ErrEmptyIdempotencyKey)
    ELSE IF b.Status # BillStatusOpen THEN Res(b, ErrBillNotOpen)
    ELSE IF HasKey(b.Items, idempotencyKey) THEN Res(b, Nil)
    ELSE
        LET li == [IdempotencyKey |-> idempotencyKey,
                   Description |-> description,
                   Amount |-> NewResetCurrency(amount, b.Currency),
                   AddedAt |-> updatedAt]
        IN Res([b EXCEPT !.Items = <<li>> \o b.Items,
                         !.Total = Add(b.Total, li.Amount),
                         !.UpdatedAt = updatedAt], Nil)

\* AddItem as it would be if a key seen again replaced its item, the new one going last
AddItem_LastWins(b, idempotencyKey, description, amount, updatedAt) ==
    IF idempotencyKey = "" THEN Res(b, ErrEmptyIdempotencyKey)
    ELSE IF b.Status # BillStatusOpen THEN Res(b, ErrBillNotOpen)
    ELSE
        LET li == [IdempotencyKey |-> idempotencyKey,
                   Description |-> description,
                   Amount |-> NewResetCurrency(amount, b.Currency),
                   AddedAt |-> updatedAt]
            others == SelectSeq(b.Items, LAMBDA it : it.IdempotencyKey # idempotencyKey)
            items == Append(others, li)
        IN Res([b EXCEPT !.Items = items,
                         !.Total = Add(b.Total, li.Amount),
                         !.UpdatedAt = updatedAt], Nil)

\* AddItem as it would be if it tested the status before the key
AddItem_StatusBeforeKey(b, idempotencyKey, description, amount, updatedAt) ==
    IF b.Status # BillStatusOpen THEN Res(b, ErrBillNotOpen)
    ELSE IF idempotencyKey = "" THEN Res(b, ErrEmptyIdempotencyKey)
    ELSE IF HasKey(b.Items, idempotencyKey) THEN Res(b, Nil)
    ELSE
        LET li == [IdempotencyKey |-> idempotencyKey,
                   Description |-> description,
                   Amount |-> NewResetCurrency(amount, b.Currency),
                   AddedAt |-> updatedAt]
        IN Res([b EXCEPT !.Items = Append(b.Items, li),
                         !.Total = Add(b.Total, li.Amount),
                         !.UpdatedAt = updatedAt], Nil)

AddItem(b, idempotencyKey, description, amount, updatedAt) ==
    IF idempotencyKey = "" THEN Res(b, ErrEmptyIdempotencyKey)
    ELSE IF b.Status # BillStatusOpen THEN Res(b, ErrBillNotOpen)
    ELSE IF HasKey(b.Items, idempotencyKey) THEN Res(b, Nil)
    ELSE
        LET li == [IdempotencyKey |-> idempotencyKey,
                   Description |-> description,
                   Amount |-> NewResetCurrency(amount, b.Currency),
                   AddedAt |-> updatedAt]
        IN Res([b EXCEPT !.Items = Append(b.Items, li),
                         !.Total = Add(b.Total, li.Amount),
                         !.UpdatedAt = updatedAt], Nil)

\* Pending as it would be if it left UpdatedAt alone
Pending_NoUpdatedAt(b, now) == Transition(b, BillStatusPending)

Pending(b, now) ==
    LET r == Transition(b, BillStatusPending) IN
    IF r.err # Nil THEN Res(b, r.err)
    ELSE Res([r.bill EXCEPT !.UpdatedAt = now], Nil)

\* Close as it would be if FinalizedAt were not stamped
Close_NoFinalizedAt(b, closedAt) ==
    LET r == Transition(b, BillStatusClosed) IN
    IF r.err # Nil THEN Res(b, r.err)
    ELSE Res([r.bill EXCEPT !.UpdatedAt = closedAt], Nil)

\* Close as it would be if it stamped the Bill before asking Transition, as Error does
Close_StampFirst(b, closedAt) ==
    LET stamped == [b EXCEPT !.UpdatedAt = closedAt, !.FinalizedAt = <<closedAt>>]
        r == Transition(stamped, BillStatusClosed)
    IN IF r.err # Nil THEN Res(stamped, r.err) ELSE Res(r.bill, Nil)

Close(b, closedAt) ==
    LET r == Transition(b, BillStatusClosed) IN
    IF r.err # Nil THEN Res(b, r.err)
    ELSE Res([r.bill EXCEPT !.UpdatedAt = closedAt, !.FinalizedAt = <<closedAt>>], Nil)

\* Error as it would be if FinalizedAt were not stamped
Error_NoFinalizedAt(b, closedAt) ==
    IF ~IsActive(b) THEN Res(b, Nil) ELSE Transition(b, BillStatusError)

Error(b, closedAt) ==
    IF ~IsActive(b) THEN Res(b, Nil)
    ELSE Transition([b EXCEPT !.FinalizedAt = <<closedAt>>], BillStatusError)

RECURSIVE SumItems(_, _)
SumItems(items, sum) ==
    IF items = <<>> THEN sum
    ELSE SumItems(Tail(items), Add(sum, Head(items).Amount))

RecalcTotal(b) == SumItems(b.Items, NewFromInt(0, b.Currency))

Digits == {"0", "1", "2", "3", "4", "5", "6", "7", "8", "9"}

\* the pattern as it would be with any two digits for the month: ^\d{4}-\d{2}$
reYYYYMM_AnyMonth(p) ==
    /\ Len(p) = 7
    /\ \A i \in 1..4 : p[i] \in Digits
    /\ p[5] = "-"
    /\ p[6] \in Digits
    /\ p[7] \in Digits

\* the pattern as it would be without its ^ anchor: the string has to end in a period
reYYYYMM_Unanchored(p) ==
    /\ Len(p) >= 7
    /\ LET q == SubSeq(p, Len(p) - 6, Len(p)) IN
       /\ \A i \in 1..4 : q[i] \in Digits
       /\ q[5] = "-"
       /\ \/ q[6] = "0" /\ q[7] \in Digits \ {"0"}
          \/ q[6] = "1" /\ q[7] \in {"0", "1", "2"}

\* ^\d{4}-(0[1-9]|1[0-2])$
reYYYYMM(p) ==
    /\ Len(p) = 7
    /\ \A i \in 1..4 : p[i] \in Digits
    /\ p[5] = "-"
    /\ \/ p[6] = "0" /\ p[7] \in Digits \ {"0"}
       \/ p[6] = "1" /\ p[7] \in {"0", "1", "2"}

\* the zero value Bill{}
ZeroBill ==
    [ID |-> <<>>, CustomerID |-> <<>>, Currency |-> "", BillingPeriod |-> <<>>,
     Status |-> BillStatusUnknown, Items |-> <<>>, Total |-> [value |-> 0, currency |-> ""],
     CreatedAt |-> 0, UpdatedAt |-> 0, FinalizedAt |-> <<>>]

\* NewBillBuilder(): status OPEN, no items, everything else zero
NewBillBuilder ==
    [id |-> <<>>, customerID |-> <<>>, currency |-> "", period |-> <<>>,
     status |-> BillStatusOpen, items |-> <<>>, createdAt |-> <<>>]

Build(bb) ==
    IF bb.id = <<>> THEN Res(ZeroBill, "id is required")
    ELSE IF bb.customerID = <<>> THEN Res(ZeroBill, "customerID is required")
    ELSE IF ~SupportedCurrency(bb.currency) THEN Res(ZeroBill, "currency must be USD or GEL")
    ELSE IF ~reYYYYMM(bb.period) THEN Res(ZeroBill, "billing period must be YYYY-MM")
    ELSE IF bb.createdAt = <<>> THEN Res(ZeroBill, "createdAt is required")
    ELSE Res([ID |-> bb.id, CustomerID |-> bb.customerID, Currency |-> bb.currency,
              BillingPeriod |-> bb.period, Status |-> bb.status, Items |-> bb.items,
              Total |-> SumItems(bb.items, [value |-> 0, currency |-> bb.currency]),
              CreatedAt |-> bb.createdAt[1], UpdatedAt |-> bb.createdAt[1],
              FinalizedAt |-> <<>>], Nil)

-----------------------------------------------------------------------------
(* libs/time and the Bill id                                               *)

\* strings.TrimSpace, for the space character
RECURSIVE TrimSpace(_)
TrimSpace(str) ==
    IF str = <<>> THEN str
    ELSE IF Head(str) = " " THEN TrimSpace(Tail(str))
    ELSE IF str[Len(str)] = " " THEN TrimSpace(SubSeq(str, 1, Len(str) - 1))
    ELSE str

DigitValue(d) ==
    CASE d = "0" -> 0 [] d = "1" -> 1 [] d = "2" -> 2 [] d = "3" -> 3 [] d = "4" -> 4
      [] d = "5" -> 5 [] d = "6" -> 6 [] d = "7" -> 7 [] d = "8" -> 8 [] d = "9" -> 9

\* time.Parse("2006-01", str): a year of four digits, a hyphen, a zero-padded month
\* 01..12 and nothing after it
ParsesAsYearMonth(str) ==
    /\ Len(str) = 7
    /\ \A i \in 1..4 : str[i] \in Digits
    /\ str[5] = "-"
    /\ str[6] \in Digits
    /\ str[7] \in Digits
    /\ DigitValue(str[6]) * 10 + DigitValue(str[7]) \in 1..12

ErrInvalidPeriod == "invalid period (want YYYY-MM)"

\* ToYYYYMM: (int64, error)
ToYYYYMM(period) ==
    LET str == TrimSpace(period) IN
    IF ~ParsesAsYearMonth(str) THEN [value |-> 0, err |-> ErrInvalidPeriod]
    ELSE [value |-> (DigitValue(str[1]) * 1000 + DigitValue(str[2]) * 100
                     + DigitValue(str[3]) * 10 + DigitValue(str[4])) * 100
                    + DigitValue(str[6]) * 10 + DigitValue(str[7]),
          err |-> Nil]

\* ToYYYYMMNullable: (*int64, error), the pointer nil for the empty string
ToYYYYMMNullable(period) ==
    IF period = <<>> THEN [value |-> <<>>, err |-> Nil]
    ELSE LET r == ToYYYYMM(period) IN
         IF r.err # Nil THEN [value |-> <<>>, err |-> r.err]
         ELSE [value |-> <<r.value>>, err |-> Nil]

\* MakeBillID as it would be with its two verbs filled the other way round
MakeBillID_PeriodFirst(customerID, period) ==
    <<"b", "i", "l", "l", "/">> \o period \o <<"/">> \o customerID

\* fmt.Sprintf("bill/%s/%s", customerID, period)
MakeBillID(customerID, period) ==
    <<"b", "i", "l", "l", "/">> \o customerID \o <<"/">> \o period

-----------------------------------------------------------------------------
(* A Bill operated through its methods                                     *)

Period202501 == <<"2", "0", "2", "5", "-", "0", "1">>

\* "t1", the id and the customer of the Bills the domain tests build; "c1", a customer
TestBillID == <<"t", "1">>

TestCustomer == <<"c", "0">>

Customer1 == <<"c", "1">>

Period202513 == <<"2", "0", "2", "5", "-", "1", "3">>

\* the record of a direct call: the method, its key and time arguments ("" and 0 when it
\* has none), the status it found, the error it returned, whether it changed the Bill
Call(op, key, now, b, r) ==
    [op |-> op, key |-> key, now |-> now, from |-> b.Status, err |-> r.err,
     changed |-> r.bill # b]

NoCall == [op |-> "none", key |-> "", now |-> 0, from |-> BillStatusUnknown, err |-> Nil,
           changed |-> FALSE]

\* newTestBillWithCurrency: a Bill built OPEN with no items
BuiltBills ==
    {Build([NewBillBuilder EXCEPT !.id = TestBillID, !.customerID = TestCustomer,
                                  !.period = Period202501, !.currency = c,
                                  !.createdAt = <<1>>]).bill :
        c \in {CurrencyUSD, CurrencyGEL}}

\* newTestBill: a built Bill whose Status field is then set by hand
TestBills == {[b EXCEPT !.Status = s] : b \in BuiltBills, s \in BillStatuses}

\* nothing processed yet
NoHistory ==
    [log |-> <<>>, received |-> <<>>, statuses |-> <<>>, upserts |-> 0,
     upsertsFailed |-> 0, outcome |-> "none"]

\* no use case running, none run yet
NoUseCase ==
    [op |-> "none", at |-> "idle",
     cmd |-> [CustomerID |-> <<>>, Period |-> <<>>, Currency |-> "",
              Item |-> [IdempotencyKey |-> "", Description |-> "",
                        Amount |-> Money(0, CurrencyNone)]],
     calls |-> <<>>, bill |-> ZeroBill, err |-> Nil]

\* no function applied yet
NoApply == [fn |-> "none", args |-> <<>>, out |-> <<>>]

\* no StartMonthlyBill request made yet
NoStarts == [requests |-> 0, started |-> 0, reply |-> "none", err |-> Nil]

WorkflowIdle ==
    /\ pc = "idle"
    /\ params = [BillID |-> <<>>, CustomerID |-> <<>>, Period |-> <<>>, PeriodYYYYMM |-> 0,
                 Currency |-> ""]
    /\ addItemCh = <<>>
    /\ closeCh = 0
    /\ sa = [BillStatus |-> "", BillItemCount |-> 0, BillTotalCents |-> 0]
    /\ ret = Res(ZeroBill, Nil)
    /\ activity = <<>>
    /\ env = [now |-> 1, sent |-> 0]
    /\ hist = NoHistory
    /\ snapshot = <<>>
    /\ starts = NoStarts
    /\ uc = NoUseCase
    /\ call = NoApply

InitBill ==
    /\ bill \in BuiltBills
    /\ last = NoCall
    /\ WorkflowIdle

InitTestBill ==
    /\ bill \in TestBills
    /\ last = NoCall
    /\ WorkflowIdle

CallAddItem ==
    \E k \in Keys, c \in Charges, cur \in CurrencyTags, t \in Times :
        LET r == AddItem(bill, k, c.desc, Money(c.value, cur), t) IN
        /\ pc = "idle"
        /\ bill' = r.bill
        /\ last' = Call("AddItem", k, t, bill, r)
        /\ UNCHANGED wfvars

CallPending ==
    \E t \in Times :
        LET r == Pending(bill, t) IN
        /\ pc = "idle"
        /\ bill' = r.bill
        /\ last' = Call("Pending", "", t, bill, r)
        /\ UNCHANGED wfvars

CallClose ==
    \E t \in Times :
        LET r == Close(bill, t) IN
        /\ pc = "idle"
        /\ bill' = r.bill
        /\ last' = Call("Close", "", t, bill, r)
        /\ UNCHANGED wfvars

CallError ==
    \E t \in Times :
        LET r == Error(bill, t) IN
        /\ pc = "idle"
        /\ bill' = r.bill
        /\ last' = Call("Error", "", t, bill, r)
        /\ UNCHANGED wfvars

CallTransition ==
    \E to \in BillStatuses :
        LET r == Transition(bill, to) IN
        /\ pc = "idle"
        /\ bill' = r.bill
        /\ last' = Call("Transition", "", 0, bill, r)
        /\ UNCHANGED wfvars

NextBill == CallAddItem \/ CallPending \/ CallClose \/ CallError

SpecBill == InitBill /\ [][NextBill]_vars

NextTestBill == CallAddItem \/ CallPending \/ CallClose \/ CallError \/ CallTransition

SpecTestBill == InitTestBill /\ [][NextTestBill]_vars

-----------------------------------------------------------------------------
(* fees/app/workflows: MonthlyFeeAccrualWorkflow                           *)
(*                                                                         *)
(* The workflow function runs on one cooperative thread: a step of the     *)
(* model is everything it does between two points at which it blocks       *)
(* (sel.Select in the accrual loop, the activity future's Get).            *)

ErrFinalization == "activity error"

\* the currency tag of a signalled amount: the API parses amounts with CurrencyNone
PayloadTags == {CurrencyNone}

AddLineItemPayloads ==
    {[IdempotencyKey |-> k, Description |-> c.desc, Amount |-> Money(c.value, cur)] :
        k \in Keys, c \in Charges, cur \in PayloadTags}

\* the parameters CreateBill.Handle makes, and the same with a period Build rejects
WorkflowParams ==
    {[BillID |-> MakeBillID(Customer1, p), CustomerID |-> Customer1, Period |-> p,
      PeriodYYYYMM |-> ToYYYYMM(p).value, Currency |-> c] :
        p \in {Period202501, Period202513}, c \in CurrencyTags}

\* moneyToCents as it would be rounding half up, towards plus infinity
moneyToCents_HalfUp(m) == (m.value + 5) \div 10

\* m x 100, rounded to 0 places half away from zero, integer part; m.value is in thousandths
moneyToCents(m) ==
    LET a == IF m.value < 0 THEN -m.value ELSE m.value
        q == (a + 5) \div 10
    IN IF m.value < 0 THEN -q ELSE q

\* workflow.UpsertTypedSearchAttributes: on failure nothing is written
UpdateInsertItemSearchAttributes(attrs, b, ok) ==
    IF ok THEN [attrs EXCEPT !.BillTotalCents = moneyToCents(b.Total),
                             !.BillItemCount = Len(b.Items)]
    ELSE attrs

UpdateBillStatusSearchAttributes(attrs, status, ok) ==
    IF ok THEN [attrs EXCEPT !.BillStatus = status] ELSE attrs

\* the statuses the workflow's Bill has passed through
Passed(statuses, b) ==
    IF statuses # <<>> /\ statuses[Len(statuses)] = b.Status THEN statuses
    ELSE Append(statuses, b.Status)

\* an event of the execution's history, with the time workflow.Now gave while it was
\* processed; NoPayload for an event that carries none
NoPayload == [IdempotencyKey |-> "", Description |-> "", Amount |-> Money(0, CurrencyNone)]

Event(kind, now, pl) == [kind |-> kind, now |-> now, pl |-> pl]

\* Gateway.StartMonthlyBill: the execution starts with the initial search attributes
InitWorkflow ==
    /\ bill = ZeroBill
    /\ last = NoCall
    /\ pc = "start"
    /\ params \in WorkflowParams
    /\ addItemCh = <<>>
    /\ closeCh = 0
    /\ sa = [BillStatus |-> BillStatusOpen, BillItemCount |-> 0, BillTotalCents |-> 0]
    /\ ret = Res(ZeroBill, Nil)
    /\ activity = <<>>
    /\ env = [now |-> 1, sent |-> 0]
    /\ hist = NoHistory
    /\ snapshot = <<>>
    /\ starts = [requests |-> 1, started |-> 1, reply |-> "ok", err |-> Nil]
    /\ uc = NoUseCase
    /\ call = NoApply

\* the substrate's clock, which workflow.Now reads, moves on
Tick ==
    /\ pc \in {"start", "select", "finalize"}
    /\ env.now + 1 \in Times
    /\ env' = [env EXCEPT !.now = env.now + 1]
    /\ UNCHANGED <<bill, last, pc, params, uc, call, snapshot, starts, addItemCh, closeCh, sa, ret, activity, hist>>

\* Gateway.AddLineItem: a signal reaches the channel of a running execution
SignalAddLineItem ==
    \E pl \in AddLineItemPayloads :
        /\ pc \in {"start", "select", "finalize"}
        /\ env.sent < MaxSignals
        /\ addItemCh' = Append(addItemCh, pl)
        /\ env' = [env EXCEPT !.sent = env.sent + 1]
        /\ UNCHANGED <<bill, last, pc, params, uc, call, snapshot, starts, closeCh, sa, ret, activity, hist>>

\* Gateway.CloseBill
SignalCloseBill ==
    /\ pc \in {"start", "select", "finalize"}
    /\ env.sent < MaxSignals
    /\ closeCh' = closeCh + 1
    /\ env' = [env EXCEPT !.sent = env.sent + 1]
    /\ UNCHANGED <<bill, last, pc, params, uc, call, snapshot, starts, addItemCh, sa, ret, activity, hist>>

\* the activity as it would be started if it were handed the Bill as built, without the
\* items accrued since
AfterHandler_BillAsBuilt(b) ==
    IF IsActive(b)
    THEN /\ pc' = "select"
         /\ UNCHANGED <<ret, activity>>
    ELSE IF ~IsReadyForInvoicing(b)
    THEN /\ pc' = "done"
         /\ ret' = Res(b, Nil)
         /\ UNCHANGED activity
    ELSE /\ pc' = "finalize"
         /\ activity' = Append(activity, [b EXCEPT !.Items = <<>>,
                                                   !.Total = NewFromInt(0, b.Currency)])
         /\ UNCHANGED ret

\* what follows a signal handler as it would be with the return the source keeps
\* commented out in the add-item callback: the run ends once the Bill holds two items
AfterHandler_ContinueAsNew(b) ==
    IF Len(b.Items) >= 2
    THEN /\ pc' = "done"
         /\ ret' = Res(ZeroBill, "ContinueAsNew")
         /\ UNCHANGED activity
    ELSE IF IsActive(b)
    THEN /\ pc' = "select"
         /\ UNCHANGED <<ret, activity>>
    ELSE IF ~IsReadyForInvoicing(b)
    THEN /\ pc' = "done"
         /\ ret' = Res(b, Nil)
         /\ UNCHANGED activity
    ELSE /\ pc' = "finalize"
         /\ activity' = Append(activity, b)
         /\ UNCHANGED ret

\* what follows a signal handler: the loop test, the test for invoicing, the activity.
\* The err returned with a Bill that is not ready is Build's, which is nil here.
AfterHandler(b) ==
    IF IsActive(b)
    THEN /\ pc' = "select"
         /\ UNCHANGED <<ret, activity>>
    ELSE IF ~IsReadyForInvoicing(b)
    THEN /\ pc' = "done"
         /\ ret' = Res(b, Nil)
         /\ UNCHANGED activity
    ELSE /\ pc' = "finalize"
         /\ activity' = Append(activity, b)
         /\ UNCHANGED ret

\* the workflow function up to its first sel.Select: Build and SetQueryHandler, which
\* fails only for a handler that is not a function
WorkflowStart ==
    LET r == Build([NewBillBuilder EXCEPT !.id = params.BillID,
                                          !.customerID = params.CustomerID,
                                          !.period = params.Period,
                                          !.currency = params.Currency,
                                          !.createdAt = <<env.now>>,
                                          !.status = BillStatusOpen])
    IN
    /\ pc = "start"
    /\ IF r.err # Nil
       THEN /\ pc' = "done"
            /\ ret' = Res(ZeroBill, r.err)
            /\ hist' = [hist EXCEPT !.log = Append(hist.log, Event("start", env.now, NoPayload))]
            /\ UNCHANGED <<bill, activity>>
       ELSE /\ bill' = r.bill
            /\ hist' = [hist EXCEPT !.log = Append(hist.log, Event("start", env.now, NoPayload)),
                                    !.statuses = Passed(hist.statuses, r.bill)]
            /\ AfterHandler(r.bill)
    /\ UNCHANGED <<last, params, uc, call, snapshot, starts, addItemCh, closeCh, sa, env>>

\* the add-item callback as it would be if it ran in a coroutine of its own, receiving
\* whenever a payload is there, and appended to the Bill itself
HandleAddItem_OwnCoroutine ==
    LET pl == Head(addItemCh)
        li == [IdempotencyKey |-> pl.IdempotencyKey, Description |-> pl.Description,
               Amount |-> NewResetCurrency(pl.Amount, bill.Currency), AddedAt |-> env.now]
        fresh == pl.IdempotencyKey # "" /\ ~HasKey(bill.Items, pl.IdempotencyKey)
    IN
    /\ pc \in {"select", "finalize"}
    /\ addItemCh # <<>>
    /\ addItemCh' = Tail(addItemCh)
    /\ bill' = IF fresh THEN [bill EXCEPT !.Items = Append(bill.Items, li),
                                          !.Total = Add(bill.Total, li.Amount),
                                          !.UpdatedAt = env.now]
               ELSE bill
    /\ sa' = IF fresh THEN UpdateInsertItemSearchAttributes(sa, bill', TRUE) ELSE sa
    /\ hist' = [hist EXCEPT !.log = Append(hist.log, Event("add", env.now, pl)),
                            !.received = Append(hist.received, pl)]
    /\ UNCHANGED <<last, pc, params, uc, call, snapshot, starts, closeCh, ret, activity, env>>

\* the add-item callback as it would be if an error of AddItem ended the workflow
HandleAddItem_ReturnsError ==
    \E upsertOk \in BOOLEAN :
        LET pl == Head(addItemCh)
            r == AddItem(bill, pl.IdempotencyKey, pl.Description, pl.Amount, env.now)
            accepted == IsActive(bill) /\ r.err = Nil
            b == IF accepted THEN r.bill ELSE bill
        IN
        /\ pc = "select"
        /\ addItemCh # <<>>
        /\ addItemCh' = Tail(addItemCh)
        /\ bill' = b
        /\ sa' = IF accepted THEN UpdateInsertItemSearchAttributes(sa, b, upsertOk) ELSE sa
        /\ hist' = [hist EXCEPT !.log = Append(hist.log, Event("add", env.now, pl)),
                                !.received = Append(hist.received, pl),
                                !.upserts = IF accepted THEN hist.upserts + 1 ELSE hist.upserts,
                                !.upsertsFailed = IF accepted /\ ~upsertOk
                                                  THEN hist.upsertsFailed + 1
                                                  ELSE hist.upsertsFailed]
        /\ IF r.err # Nil
           THEN /\ pc' = "done"
                /\ ret' = Res(b, r.err)
                /\ UNCHANGED activity
           ELSE AfterHandler(b)
        /\ UNCHANGED <<last, params, uc, call, snapshot, starts, closeCh, env>>

\* sel.Select picks the add-item channel and runs its callback
HandleAddItem ==
    \E upsertOk \in BOOLEAN :
        LET pl == Head(addItemCh)
            r == AddItem(bill, pl.IdempotencyKey, pl.Description, pl.Amount, env.now)
            accepted == IsActive(bill) /\ r.err = Nil
            b == IF accepted THEN r.bill ELSE bill
        IN
        /\ pc = "select"
        /\ addItemCh # <<>>
        /\ addItemCh' = Tail(addItemCh)
        /\ bill' = b
        /\ sa' = IF accepted THEN UpdateInsertItemSearchAttributes(sa, b, upsertOk) ELSE sa
        /\ hist' = [hist EXCEPT !.log = Append(hist.log, Event("add", env.now, pl)),
                                !.received = Append(hist.received, pl),
                                !.upserts = IF accepted THEN hist.upserts + 1 ELSE hist.upserts,
                                !.upsertsFailed = IF accepted /\ ~upsertOk
                                                  THEN hist.upsertsFailed + 1
                                                  ELSE hist.upsertsFailed]
        /\ AfterHandler(b)
        /\ UNCHANGED <<last, params, uc, call, snapshot, starts, closeCh, env>>

\* the close callback as it would be if it stamped the Bill with the worker's own clock
\* (time.Now) instead of workflow.Now
HandleClose_WallClock ==
    \E upsertOk \in BOOLEAN, wall \in Times :
        LET r == Pending(bill, wall)
            moved == IsActive(bill) /\ r.err = Nil
            b == IF moved THEN r.bill ELSE bill
        IN
        /\ pc = "select"
        /\ closeCh > 0
        /\ closeCh' = closeCh - 1
        /\ bill' = b
        /\ sa' = IF moved THEN UpdateBillStatusSearchAttributes(sa, b.Status, upsertOk) ELSE sa
        /\ hist' = [hist EXCEPT !.log = Append(hist.log, Event("close", env.now, NoPayload)),
                                !.statuses = Passed(hist.statuses, b),
                                !.upserts = IF moved THEN hist.upserts + 1 ELSE hist.upserts,
                                !.upsertsFailed = IF moved /\ ~upsertOk
                                                  THEN hist.upsertsFailed + 1
                                                  ELSE hist.upsertsFailed]
        /\ AfterHandler(b)
        /\ UNCHANGED <<last, params, uc, call, snapshot, starts, addItemCh, env>>

\* the close callback as it would be if it dropped a close signal received while add-item
\* signals are waiting
HandleClose_DropsWhileItemsWait ==
    \E upsertOk \in BOOLEAN :
        LET r == Pending(bill, env.now)
            moved == IsActive(bill) /\ r.err = Nil /\ addItemCh = <<>>
            b == IF moved THEN r.bill ELSE bill
        IN
        /\ pc = "select"
        /\ closeCh > 0
        /\ closeCh' = closeCh - 1
        /\ bill' = b
        /\ sa' = IF moved THEN UpdateBillStatusSearchAttributes(sa, b.Status, upsertOk) ELSE sa
        /\ hist' = [hist EXCEPT !.log = Append(hist.log, Event("close", env.now, NoPayload)),
                                !.statuses = Passed(hist.statuses, b),
                                !.upserts = IF moved THEN hist.upserts + 1 ELSE hist.upserts,
                                !.upsertsFailed = IF moved /\ ~upsertOk
                                                  THEN hist.upsertsFailed + 1
                                                  ELSE hist.upsertsFailed]
        /\ AfterHandler(b)
        /\ UNCHANGED <<last, params, uc, call, snapshot, starts, addItemCh, env>>

\* sel.Select picks the close channel and runs its callback
HandleClose ==
    \E upsertOk \in BOOLEAN :
        LET r == Pending(bill, env.now)
            moved == IsActive(bill) /\ r.err = Nil
            b == IF moved THEN r.bill ELSE bill
        IN
        /\ pc = "select"
        /\ closeCh > 0
        /\ closeCh' = closeCh - 1
        /\ bill' = b
        /\ sa' = IF moved THEN UpdateBillStatusSearchAttributes(sa, b.Status, upsertOk) ELSE sa
        /\ hist' = [hist EXCEPT !.log = Append(hist.log, Event("close", env.now, NoPayload)),
                                !.statuses = Passed(hist.statuses, b),
                                !.upserts = IF moved THEN hist.upserts + 1 ELSE hist.upserts,
                                !.upsertsFailed = IF moved /\ ~upsertOk
                                                  THEN hist.upsertsFailed + 1
                                                  ELSE hist.upsertsFailed]
        /\ AfterHandler(b)
        /\ UNCHANGED <<last, params, uc, call, snapshot, starts, addItemCh, env>>

\* DoInvoicesActivities as it would be if the workflow function, and not the activity's
\* retry policy, started the activity again after a failure
FinalizationFails_RetriesItself ==
    /\ pc = "finalize"
    /\ Len(activity) < 2
    /\ activity' = Append(activity, bill)
    /\ UNCHANGED <<bill, last, pc, params, uc, call, snapshot, starts, addItemCh, closeCh, sa, ret, env, hist>>

\* DoInvoicesActivities returns an error (the activity's non-retryable error, or its last
\* error once the retry policy is exhausted): bill.Error, whose own error is only logged,
\* then return
FinalizationFails ==
    LET r == Error(bill, env.now) IN
    /\ pc = "finalize"
    /\ bill' = r.bill
    /\ hist' = [hist EXCEPT !.log = Append(hist.log, Event("failed", env.now, NoPayload)),
                            !.statuses = Passed(hist.statuses, r.bill),
                            !.outcome = "error"]
    /\ ret' = Res(r.bill, ErrFinalization)
    /\ pc' = "done"
    /\ UNCHANGED <<last, params, uc, call, snapshot, starts, addItemCh, closeCh, sa, activity, env>>

\* the successful finalization as it would be with the fail-fast return the source keeps
\* commented out: a failed status upsert ends the workflow with an error and no Bill
FinalizationSucceeds_FailFast ==
    \E upsertOk \in BOOLEAN :
        LET r == Close(bill, env.now) IN
        /\ pc = "finalize"
        /\ bill' = r.bill
        /\ sa' = UpdateBillStatusSearchAttributes(sa, r.bill.Status, upsertOk)
        /\ hist' = [hist EXCEPT !.log = Append(hist.log, Event("completed", env.now, NoPayload)),
                                !.statuses = Passed(hist.statuses, r.bill),
                                !.upserts = hist.upserts + 1,
                                !.upsertsFailed = IF upsertOk THEN hist.upsertsFailed
                                                  ELSE hist.upsertsFailed + 1,
                                !.outcome = "ok"]
        /\ ret' = IF upsertOk THEN Res(r.bill, Nil)
                  ELSE Res(ZeroBill, "failed to update search attributes")
        /\ pc' = "done"
        /\ UNCHANGED <<last, params, uc, call, snapshot, starts, addItemCh, closeCh, activity, env>>

\* DoInvoicesActivities returns nil: bill.Close, whose error is only logged, the status
\* upsert, whose error is only logged, then return
FinalizationSucceeds ==
    \E upsertOk \in BOOLEAN :
        LET r == Close(bill, env.now) IN
        /\ pc = "finalize"
        /\ bill' = r.bill
        /\ sa' = UpdateBillStatusSearchAttributes(sa, r.bill.Status, upsertOk)
        /\ hist' = [hist EXCEPT !.log = Append(hist.log, Event("completed", env.now, NoPayload)),
                                !.statuses = Passed(hist.statuses, r.bill),
                                !.upserts = hist.upserts + 1,
                                !.upsertsFailed = IF upsertOk THEN hist.upsertsFailed
                                                  ELSE hist.upsertsFailed + 1,
                                !.outcome = "ok"]
        /\ ret' = Res(r.bill, Nil)
        /\ pc' = "done"
        /\ UNCHANGED <<last, params, uc, call, snapshot, starts, addItemCh, closeCh, activity, env>>

NextWorkflow ==
    \/ Tick
    \/ SignalAddLineItem
    \/ SignalCloseBill
    \/ WorkflowStart
    \/ HandleAddItem
    \/ HandleClose
    \/ FinalizationFails
    \/ FinalizationSucceeds

SpecWorkflow == InitWorkflow /\ [][NextWorkflow]_vars

\* a workflow started with parameters Build accepts
InitWorkflowFair ==
    /\ InitWorkflow
    /\ params.Period = Period202501
    /\ params.Currency = CurrencyUSD

\* The workflow under the scheduling its substrate gives it: a worker runs the first
\* workflow task, sel.Select returns when a channel holds a signal and runs one callback,
\* and the activity's future completes, with nil or with an error.
SpecWorkflowFair ==
    /\ InitWorkflowFair
    /\ [][NextWorkflow]_vars
    /\ WF_vars(WorkflowStart)
    /\ WF_vars(HandleAddItem \/ HandleClose)
    /\ WF_vars(FinalizationFails \/ FinalizationSucceeds)

-----------------------------------------------------------------------------
(* The CurrentBillState query                                              *)

\* billToDTO as it would be if it left Total out of the DTO
billToDTO_NoTotal(b) ==
    [ID |-> b.ID, CustomerID |-> b.CustomerID, Currency |-> b.Currency,
     BillingPeriod |-> b.BillingPeriod, Status |-> b.Status,
     Items |-> [i \in 1..Len(b.Items) |->
                  [IdempotencyKey |-> b.Items[i].IdempotencyKey,
                   Description |-> b.Items[i].Description,
                   Amount |-> b.Items[i].Amount,
                   AddedAt |-> b.Items[i].AddedAt]],
     Total |-> [value |-> 0, currency |-> ""],
     CreatedAt |-> b.CreatedAt, UpdatedAt |-> b.UpdatedAt, ClosedAt |-> b.FinalizedAt]

\* billToDTO: a BillDTO with a LineItemDTO per item, FinalizedAt under the name ClosedAt
billToDTO(b) ==
    [ID |-> b.ID, CustomerID |-> b.CustomerID, Currency |-> b.Currency,
     BillingPeriod |-> b.BillingPeriod, Status |-> b.Status,
     Items |-> [i \in 1..Len(b.Items) |->
                  [IdempotencyKey |-> b.Items[i].IdempotencyKey,
                   Description |-> b.Items[i].Description,
                   Amount |-> b.Items[i].Amount,
                   AddedAt |-> b.Items[i].AddedAt]],
     Total |-> b.Total,
     CreatedAt |-> b.CreatedAt, UpdatedAt |-> b.UpdatedAt, ClosedAt |-> b.FinalizedAt]

\* Gateway.QueryBill sends a query, one more request of a client; the query handler,
\* registered once Build has succeeded, answers while the workflow function is blocked
\* or has returned: it reads the bill variable the function works on
QueryState ==
    /\ hist.statuses # <<>>
    /\ pc \in {"select", "finalize", "done"}
    /\ env.sent < MaxSignals
    /\ env' = [env EXCEPT !.sent = env.sent + 1]
    /\ snapshot' = <<billToDTO(bill)>>
    /\ UNCHANGED <<bill, last, pc, params, uc, call, starts, addItemCh, closeCh, sa, ret, activity,
                   hist>>

NextQuery ==
    \/ Tick
    \/ SignalAddLineItem
    \/ SignalCloseBill
    \/ WorkflowStart
    \/ HandleAddItem
    \/ HandleClose
    \/ FinalizationFails
    \/ FinalizationSucceeds
    \/ QueryState

SpecQuery == InitWorkflow /\ [][NextQuery]_vars

-----------------------------------------------------------------------------
(* fees/internal/adapters/temporal: Gateway.StartMonthlyBill               *)
(*                                                                         *)
(* One Bill id, which is the workflow id. The substrate answers a start    *)
(* request under the options the gateway sets: with                        *)
(* WORKFLOW_ID_REUSE_POLICY_REJECT_DUPLICATE and                           *)
(* WorkflowExecutionErrorWhenAlreadyStarted an id that has an execution,   *)
(* running or completed, is answered WorkflowExecutionAlreadyStarted; any  *)
(* request may also fail for another reason, such as a lost connection.    *)

ErrBillWithPeriodAlreadyStarted == "a bill already exists for this customer and period"

ErrWorkflowStart == "temporal workflow start error"

AlreadyStarted == "WorkflowExecutionAlreadyStarted"

ExecuteWorkflowReplies == {"ok", AlreadyStarted, "temporal connection error"}

\* the error StartMonthlyBill returns for what ExecuteWorkflow returned
StartError(reply) ==
    IF reply = "ok" THEN Nil
    ELSE IF reply = AlreadyStarted THEN ErrBillWithPeriodAlreadyStarted
    ELSE ErrWorkflowStart

\* no execution has the Bill's id yet
InitCreate ==
    /\ bill = ZeroBill
    /\ last = NoCall
    /\ pc = "absent"
    /\ params \in {p \in WorkflowParams : p.Period = Period202501 /\ p.Currency = CurrencyUSD}
    /\ addItemCh = <<>>
    /\ closeCh = 0
    /\ sa = [BillStatus |-> "", BillItemCount |-> 0, BillTotalCents |-> 0]
    /\ ret = Res(ZeroBill, Nil)
    /\ activity = <<>>
    /\ env = [now |-> 1, sent |-> 0]
    /\ hist = NoHistory
    /\ snapshot = <<>>
    /\ starts = NoStarts
    /\ uc = NoUseCase
    /\ call = NoApply

\* StartMonthlyBill as it would be without the reuse policy: the substrate's default lets
\* the id of a completed execution start a new one
StartMonthlyBill_AllowDuplicate ==
    \E reply \in ExecuteWorkflowReplies :
        /\ env.sent < MaxSignals
        /\ reply = "ok" => pc \in {"absent", "done"}
        /\ reply = AlreadyStarted => pc \notin {"absent", "done"}
        /\ starts' = [requests |-> starts.requests + 1,
                      started |-> IF reply = "ok" THEN starts.started + 1 ELSE starts.started,
                      reply |-> reply,
                      err |-> StartError(reply)]
        /\ env' = [env EXCEPT !.sent = env.sent + 1]
        /\ IF reply = "ok"
           THEN /\ pc' = "start"
                /\ bill' = ZeroBill
                /\ ret' = Res(ZeroBill, Nil)
                /\ activity' = <<>>
                /\ hist' = NoHistory
                /\ sa' = [BillStatus |-> BillStatusOpen, BillItemCount |-> 0,
                          BillTotalCents |-> 0]
           ELSE UNCHANGED <<pc, bill, ret, activity, hist, sa>>
        /\ UNCHANGED <<last, params, uc, call, addItemCh, closeCh, snapshot>>

\* Gateway.StartMonthlyBill: ExecuteWorkflow with the Bill's id as workflow id and the
\* initial search attributes, then the mapping of its error
StartMonthlyBill ==
    \E reply \in ExecuteWorkflowReplies :
        /\ env.sent < MaxSignals
        /\ reply = "ok" => pc = "absent"
        /\ reply = AlreadyStarted => pc # "absent"
        /\ starts' = [requests |-> starts.requests + 1,
                      started |-> IF reply = "ok" THEN starts.started + 1 ELSE starts.started,
                      reply |-> reply,
                      err |-> StartError(reply)]
        /\ env' = [env EXCEPT !.sent = env.sent + 1]
        /\ IF reply = "ok"
           THEN /\ pc' = "start"
                /\ sa' = [BillStatus |-> BillStatusOpen, BillItemCount |-> 0,
                          BillTotalCents |-> 0]
           ELSE UNCHANGED <<pc, sa>>
        /\ UNCHANGED <<bill, last, params, uc, call, addItemCh, closeCh, ret, activity, hist, snapshot>>

NextCreate ==
    \/ StartMonthlyBill
    \/ Tick
    \/ SignalAddLineItem
    \/ SignalCloseBill
    \/ WorkflowStart
    \/ HandleAddItem
    \/ HandleClose
    \/ FinalizationFails
    \/ FinalizationSucceeds

SpecCreate == InitCreate /\ [][NextCreate]_vars

-----------------------------------------------------------------------------
(* fees/app/usecases: CreateBill, AddLineItem, CloseBill                   *)
(*                                                                         *)
(* A client runs one use case at a time; each call a handler makes on the  *)
(* Temporal port is a step, and the workflow and other clients' signals    *)
(* run between the steps. The model follows one workflow id: a use case    *)
(* for another id finds no execution.                                      *)

ErrLineItemAlreadyAdded == "the line item already added"

ErrBillNotFound == "bill not found"

ErrBillAlreadyClosed == "bill already closed"

\* QueryWorkflow failed otherwise than with NotFound: no worker has run the first
\* workflow task within the query's timeout, or the execution failed before it set its
\* query handler
ErrQueryBill == "query bill: query failed"

\* SignalWorkflow on an execution that has completed
ErrSignalCompleted == "workflow execution already completed"

ErrPeriodFormatting == "period formatting error, invalid period (want YYYY-MM)"

\* the periods of CreateBill commands: well formed, padded with a space, with a month
\* that does not exist
CreatePeriods == {Period202501, <<" ">> \o Period202501, Period202513}

\* the Bill Gateway.QueryBill makes of the BillDTO, ClosedAt under the name FinalizedAt
DTOToBill(d) ==
    [ID |-> d.ID, CustomerID |-> d.CustomerID, Currency |-> d.Currency,
     BillingPeriod |-> d.BillingPeriod, Status |-> d.Status,
     Items |-> [i \in 1..Len(d.Items) |->
                  [IdempotencyKey |-> d.Items[i].IdempotencyKey,
                   Description |-> d.Items[i].Description,
                   Amount |-> d.Items[i].Amount,
                   AddedAt |-> d.Items[i].AddedAt]],
     Total |-> d.Total,
     CreatedAt |-> d.CreatedAt, UpdatedAt |-> d.UpdatedAt, FinalizedAt |-> d.ClosedAt]

\* Gateway.QueryBill for a Bill id, in the current state
QueryBill(id) ==
    IF pc = "absent" \/ params.BillID # id THEN Res(ZeroBill, ErrBillNotFound)
    ELSE IF pc = "start" \/ hist.statuses = <<>> THEN Res(ZeroBill, ErrQueryBill)
    ELSE Res(DTOToBill(billToDTO(bill)), Nil)

\* a call made on the Temporal port: the method, the Bill id it was made for, the error
\* and the Bill it returned
PortCall(port, id, r) == [port |-> port, id |-> id, err |-> r.err, bill |-> r.bill]

\* the command of a use case; the item is NoPayload where the command has none
Cmd(customerID, period, currency, item) ==
    [CustomerID |-> customerID, Period |-> period, Currency |-> currency, Item |-> item]

\* a handler's first call on the port is QueryBill: the use case then goes on to `next`
\* when the error e its tests give is nil, and returns e otherwise
Queried(op, c, q, e, next) ==
    [op |-> op, at |-> IF e = Nil THEN next ELSE "returned", cmd |-> c,
     calls |-> <<PortCall("QueryBill", MakeBillID(c.CustomerID, c.Period), q)>>,
     bill |-> ZeroBill, err |-> e]

\* the tests of AddLineItem.Handle as they would be without the loop over the items
AddLineItemTests_NoKeyTest(q, key) ==
    IF q.err # Nil THEN q.err
    ELSE IF ~IsActive(q.bill) THEN ErrBillAlreadyClosed
    ELSE Nil

\* AddLineItem.Handle between QueryBill and the signal: the error it returns, nil when it
\* goes on
AddLineItemTests(q, key) ==
    IF q.err # Nil THEN q.err
    ELSE IF ~IsActive(q.bill) THEN ErrBillAlreadyClosed
    ELSE IF HasKey(q.bill.Items, key) THEN ErrLineItemAlreadyAdded
    ELSE Nil

\* AddLineItem.Handle: QueryBill and the tests of its result
AddLineItemQuery ==
    \E pl \in AddLineItemPayloads :
        LET c == Cmd(Customer1, Period202501, "", pl)
            q == QueryBill(MakeBillID(c.CustomerID, c.Period))
            e == AddLineItemTests(q, pl.IdempotencyKey)
        IN
        /\ uc.at \in {"idle", "returned"}
        /\ env.sent < MaxSignals
        /\ env' = [env EXCEPT !.sent = env.sent + 1]
        /\ uc' = Queried("AddLineItem", c, q, e, "signal")
        /\ UNCHANGED <<bill, last, pc, params, call, snapshot, starts, addItemCh, closeCh,
                       sa, ret, activity, hist>>

\* AddLineItem.Handle: T.AddLineItem, a SignalWorkflow on the add-item channel
AddLineItemSignal ==
    LET id == MakeBillID(uc.cmd.CustomerID, uc.cmd.Period)
        e == IF pc \in {"start", "select", "finalize"} THEN Nil ELSE ErrSignalCompleted
    IN
    /\ uc.op = "AddLineItem"
    /\ uc.at = "signal"
    /\ addItemCh' = IF e = Nil THEN Append(addItemCh, uc.cmd.Item) ELSE addItemCh
    /\ uc' = [uc EXCEPT !.at = IF e = Nil THEN "query" ELSE "returned",
                        !.calls = Append(@, PortCall("AddLineItem", id, Res(ZeroBill, e))),
                        !.err = e]
    /\ UNCHANGED <<bill, last, pc, params, call, snapshot, starts, closeCh, sa, ret,
                   activity, env, hist>>

\* the test of CloseBill.Handle as it would be if it let a PENDING Bill through
CloseBillTest_PendingPasses(q) ==
    IF q.err # Nil THEN q.err
    ELSE IF q.bill.Status \notin {BillStatusOpen, BillStatusPending} THEN ErrBillAlreadyClosed
    ELSE Nil

\* CloseBill.Handle between QueryBill and the signal: the error it returns, nil when it
\* goes on
CloseBillTest(q) ==
    IF q.err # Nil THEN q.err
    ELSE IF ~IsActive(q.bill) THEN ErrBillAlreadyClosed
    ELSE Nil

\* CloseBill.Handle: QueryBill and the test of its result
CloseBillQuery ==
    LET c == Cmd(Customer1, Period202501, "", NoPayload)
        q == QueryBill(MakeBillID(c.CustomerID, c.Period))
        e == CloseBillTest(q)
    IN
    /\ uc.at \in {"idle", "returned"}
    /\ env.sent < MaxSignals
    /\ env' = [env EXCEPT !.sent = env.sent + 1]
    /\ uc' = Queried("CloseBill", c, q, e, "signal")
    /\ UNCHANGED <<bill, last, pc, params, call, snapshot, starts, addItemCh, closeCh, sa,
                   ret, activity, hist>>

\* CloseBill.Handle: T.CloseBill, a SignalWorkflow on the close channel
CloseBillSignal ==
    LET id == MakeBillID(uc.cmd.CustomerID, uc.cmd.Period)
        e == IF pc \in {"start", "select", "finalize"} THEN Nil ELSE ErrSignalCompleted
    IN
    /\ uc.op = "CloseBill"
    /\ uc.at = "signal"
    /\ closeCh' = IF e = Nil THEN closeCh + 1 ELSE closeCh
    /\ uc' = [uc EXCEPT !.at = IF e = Nil THEN "query" ELSE "returned",
                        !.calls = Append(@, PortCall("CloseBill", id, Res(ZeroBill, e))),
                        !.err = e]
    /\ UNCHANGED <<bill, last, pc, params, call, snapshot, starts, addItemCh, sa, ret,
                   activity, env, hist>>

\* CreateBill.Handle: MakeBillID, ToYYYYMM, and T.StartMonthlyBill when the period parsed
CreateBillStart ==
    \E period \in CreatePeriods, reply \in ExecuteWorkflowReplies :
        LET c == Cmd(Customer1, period, CurrencyUSD, NoPayload)
            id == MakeBillID(c.CustomerID, c.Period)
            yyyymm == ToYYYYMM(c.Period)
            p == [BillID |-> id, CustomerID |-> c.CustomerID, Period |-> c.Period,
                  PeriodYYYYMM |-> yyyymm.value, Currency |-> c.Currency]
            e == StartError(reply)
        IN
        /\ uc.at \in {"idle", "returned"}
        /\ env.sent < MaxSignals
        /\ pc = "absent" \/ params.BillID = id
        /\ env' = [env EXCEPT !.sent = env.sent + 1]
        /\ IF yyyymm.err # Nil
           THEN /\ reply = "ok"
                /\ uc' = [op |-> "CreateBill", at |-> "returned", cmd |-> c, calls |-> <<>>,
                          bill |-> ZeroBill, err |-> ErrPeriodFormatting]
                /\ UNCHANGED <<pc, params, sa, starts>>
           ELSE /\ reply = "ok" => pc = "absent"
                /\ reply = AlreadyStarted => pc # "absent"
                /\ starts' = [requests |-> starts.requests + 1,
                              started |-> IF reply = "ok" THEN starts.started + 1
                                          ELSE starts.started,
                              reply |-> reply,
                              err |-> e]
                /\ IF reply = "ok"
                   THEN /\ pc' = "start"
                        /\ params' = p
                        /\ sa' = [BillStatus |-> BillStatusOpen, BillItemCount |-> 0,
                                  BillTotalCents |-> 0]
                   ELSE UNCHANGED <<pc, params, sa>>
                /\ uc' = [op |-> "CreateBill", at |-> IF e = Nil THEN "query" ELSE "returned",
                          cmd |-> c,
                          calls |-> <<[port |-> "StartMonthlyBill", id |-> id, err |-> e,
                                       bill |-> ZeroBill, params |-> p]>>,
                          bill |-> ZeroBill, err |-> e]
        /\ UNCHANGED <<bill, last, call, snapshot, addItemCh, closeCh, ret, activity, hist>>

\* the last statement of the three handlers: return uc.T.QueryBill(ctx, billID).
\* The query follows the handler's own signal in the execution's history: a worker in
\* the accrual loop runs the callbacks of the signals delivered before it answers.
ReturnQueryBill ==
    LET id == MakeBillID(uc.cmd.CustomerID, uc.cmd.Period)
        q == QueryBill(id)
    IN
    /\ uc.at = "query"
    /\ pc = "select" => (addItemCh = <<>> /\ closeCh = 0)
    /\ uc' = [uc EXCEPT !.at = "returned",
                        !.calls = Append(@, PortCall("QueryBill", id, q)),
                        !.bill = q.bill,
                        !.err = q.err]
    /\ UNCHANGED <<bill, last, pc, params, call, snapshot, starts, addItemCh, closeCh, sa,
                   ret, activity, env, hist>>

\* no execution has a Bill id yet, no use case has run
InitUseCases ==
    /\ bill = ZeroBill
    /\ last = NoCall
    /\ pc = "absent"
    /\ params = [BillID |-> <<>>, CustomerID |-> <<>>, Period |-> <<>>, PeriodYYYYMM |-> 0,
                 Currency |-> ""]
    /\ addItemCh = <<>>
    /\ closeCh = 0
    /\ sa = [BillStatus |-> "", BillItemCount |-> 0, BillTotalCents |-> 0]
    /\ ret = Res(ZeroBill, Nil)
    /\ activity = <<>>
    /\ env = [now |-> 1, sent |-> 0]
    /\ hist = NoHistory
    /\ snapshot = <<>>
    /\ starts = NoStarts
    /\ uc = NoUseCase
    /\ call = NoApply

NextUseCases ==
    \/ CreateBillStart
    \/ AddLineItemQuery
    \/ AddLineItemSignal
    \/ CloseBillQuery
    \/ CloseBillSignal
    \/ ReturnQueryBill
    \/ Tick
    \/ SignalAddLineItem
    \/ SignalCloseBill
    \/ WorkflowStart
    \/ HandleAddItem
    \/ HandleClose
    \/ FinalizationFails
    \/ FinalizationSucceeds

SpecUseCases == InitUseCases /\ [][NextUseCases]_vars

-----------------------------------------------------------------------------
(* The functions of the libraries and of the domain, applied to arguments  *)

\* customer ids a caller may pass: empty, plain, holding the separator
CustomerIDs == {<<>>, Customer1, <<"a", "/", "b">>}

\* periods a caller may pass: empty, well-formed, month 13, month 00, unpadded month,
\* space before, space after, no period at all
PeriodStrings ==
    {<<>>, Period202501, Period202513,
     <<"2", "0", "2", "5", "-", "0", "0">>,
     <<"2", "0", "2", "5", "-", "1">>,
     <<" ">> \o Period202501,
     Period202501 \o <<" ">>,
     <<"x">>}

\* one application per behaviour: a function's outcome depends on its arguments only
Applied(fn, args, out) ==
    /\ pc = "idle"
    /\ call = NoApply
    /\ call' = [fn |-> fn, args |-> args, out |-> out]
    /\ UNCHANGED <<bill, last, pc, params, addItemCh, closeCh, sa, ret, activity, env, hist,
                   snapshot, starts, uc>>

ApplyMakeBillID ==
    \E c \in CustomerIDs, p \in PeriodStrings :
        Applied("MakeBillID", <<c, p>>, MakeBillID(c, p))

\* items handed to BillBuilder.AddItems, tagged as their maker tagged them
BuilderItems ==
    LET li1 == [IdempotencyKey |-> "k1", Description |-> "fee",
                Amount |-> Money(10500, CurrencyUSD), AddedAt |-> 1]
        li2 == [IdempotencyKey |-> "k2", Description |-> "late fee",
                Amount |-> Money(-5, CurrencyNone), AddedAt |-> 1]
    IN {<<>>, <<li1>>, <<li1, li2>>}

\* what the With..., For..., Open, Closed and AddItems calls can leave in a builder
BuilderInputs ==
    [id : {<<>>, TestBillID}, customerID : {<<>>, TestCustomer},
     currency : {""} \cup CurrencyTags, period : PeriodStrings,
     status : {BillStatusOpen, BillStatusClosed}, items : BuilderItems,
     createdAt : {<<>>} \cup {<<t>> : t \in Times}]

ApplyBuild ==
    \E bb \in BuilderInputs : Applied("Build", <<bb>>, Build(bb))

\* magnitudes in thousandths: every one from -0.030 to 0.030, and 10.50, 9.995 and 0.995
\* of either sign
MoneyValues == (-30..30) \cup {10500, -10500, 9995, -9995, 995, -995}

ApplyMoneyToCents ==
    \E v \in MoneyValues, c \in CurrencyTags :
        Applied("moneyToCents", <<Money(v, c)>>, moneyToCents(Money(v, c)))

\* dividends and divisors whose quotients are whole thousandths, and the zero divisor
Dividends == {10000, 0, -6000}
Divisors == {0, 2000, -4000, 500}

ApplyDiv ==
    \E v \in Dividends, v2 \in Divisors, c \in CurrencyTags, c2 \in CurrencyTags :
        Applied("Div", <<Money(v, c), Money(v2, c2)>>, Div(Money(v, c), Money(v2, c2)))

\* what T.SearchBills may return: the summaries found (here the ids), or an error
SearchBillsReplies ==
    {[bills |-> <<MakeBillID(Customer1, Period202501)>>, err |-> Nil],
     [bills |-> <<>>, err |-> "visibility error"]}

\* SearchBill.Handle: the filters it passed to T.SearchBills (none, or one), the summaries
\* and the error it returned
SearchBillHandle(c, reply) ==
    LET fromInt == ToYYYYMMNullable(c.PeriodFrom)
        toInt == ToYYYYMMNullable(c.PeriodTo)
        statuses == IF c.Status = BillStatusOpen THEN <<c.Status, BillStatusPending>>
                    ELSE <<c.Status>>
        filter == [CustomerID |-> c.CustomerID, FromYYYYMM |-> fromInt.value,
                   ToYYYYMM |-> toInt.value, Status |-> statuses]
    IN
    IF fromInt.err # Nil
    THEN [filters |-> <<>>, bills |-> <<>>, err |-> "fromInt conversion error"]
    ELSE IF toInt.err # Nil
    THEN [filters |-> <<>>, bills |-> <<>>, err |-> "toInt conversion error"]
    ELSE IF reply.err # Nil
    THEN [filters |-> <<filter>>, bills |-> <<>>, err |-> "SearchBills UC failer"]
    ELSE [filters |-> <<filter>>, bills |-> reply.bills, err |-> Nil]

ApplySearchBill ==
    \E status \in BillStatuses, from \in PeriodStrings, to \in PeriodStrings,
       reply \in SearchBillsReplies :
        LET c == [CustomerID |-> Customer1, PeriodFrom |-> from, PeriodTo |-> to,
                  Status |-> status]
        IN Applied("SearchBill", <<c, reply>>, SearchBillHandle(c, reply))

\* the decimal digit fmt.Sprintf writes for a value 0..9
DigitChar(d) ==
    CASE d = 0 -> "0" [] d = 1 -> "1" [] d = 2 -> "2" [] d = 3 -> "3" [] d = 4 -> "4"
      [] d = 5 -> "5" [] d = 6 -> "6" [] d = 7 -> "7" [] d = 8 -> "8" [] d = 9 -> "9"

\* the two markers billingPeriodNumToString returns in place of a period
ErrFormattingRange == <<"<formatting error in range>">>

ErrFormattingMonth == <<"<formatting error in month>">>

\* fmt.Sprintf("%04d-%02d", year, month) for a year of up to four digits
Sprintf04d02d(year, month) ==
    <<DigitChar(year \div 1000), DigitChar((year \div 100) % 10),
      DigitChar((year \div 10) % 10), DigitChar(year % 10), "-",
      DigitChar(month \div 10), DigitChar(month % 10)>>

\* billingPeriodNumToString: the range test, the month test, the formatting
billingPeriodNumToString(n) ==
    IF n < 100001 \/ n > 999912 THEN ErrFormattingRange
    ELSE IF n % 100 < 1 \/ n % 100 > 12 THEN ErrFormattingMonth
    ELSE Sprintf04d02d(n \div 100, n % 100)

\* period numbers: those of the tests, the ends of the range the comment names and of the
\* range the code tests, and numbers around them
PeriodNums ==
    {202501, 202503, 100000, 1000000, 202500, 202513}
    \cup {-1, 0, 1, 12, 13, 100, 101, 99912, 99913, 100001, 100012, 100013, 999900,
           999901, 999912, 999913}

ApplyBillingPeriodNumToString ==
    \E n \in PeriodNums :
        Applied("billingPeriodNumToString", <<n>>, billingPeriodNumToString(n))

\* customers and periods whose ids meet when nothing is validated: "a" with
\* "b/2025-01" and "a/b" with "2025-01"; "c1/2025-01" with "2025-02"
KeyCustomers ==
    {<<"a">>, <<"a", "/", "b">>, Customer1, Customer1 \o <<"/">> \o Period202501}

KeyPeriods ==
    {Period202501, <<"2", "0", "2", "5", "-", "0", "2">>, <<"b", "/">> \o Period202501}

\* MakeBillID for two Bills
ApplyMakeBillIDTwice ==
    \E c1 \in KeyCustomers, p1 \in KeyPeriods, c2 \in KeyCustomers, p2 \in KeyPeriods :
        Applied("MakeBillID twice", <<c1, p1, c2, p2>>,
                <<MakeBillID(c1, p1), MakeBillID(c2, p2)>>)

InitFunctions ==
    /\ bill = ZeroBill
    /\ last = NoCall
    /\ WorkflowIdle

NextFunctions ==
    \/ ApplyMakeBillID
    \/ ApplyBuild
    \/ ApplyMoneyToCents
    \/ ApplyDiv
    \/ ApplySearchBill
    \/ ApplyBillingPeriodNumToString
    \/ ApplyMakeBillIDTwice

SpecFunctions == InitFunctions /\ [][NextFunctions]_vars

-----------------------------------------------------------------------------
(* The Bill aggregate: properties                                          *)

AddItemInputs == Keys \X Charges \X CurrencyTags \X Times

\* the call AddItem(key, description, amount, now) an element of AddItemInputs stands for
AddItemOn(b, in) == AddItem(b, in[1], in[2].desc, Money(in[2].value, in[3]), in[4])

\* C1: in every state reachable from a Bill built with no items through AddItem,
\* Pending, Close and Error calls, accepted or rejected, the stored Total equals
\* RecalcTotal(), the sum of the amounts of the items the Bill holds.
C1_TotalIsSumOfItems ==
    /\ bill.Total = RecalcTotal(bill)
    /\ Cmp(bill.Total, RecalcTotal(bill)) = 0

C1_Witness ==
    /\ Len(bill.Items) = 2
    /\ bill.Total.value = 10495
    /\ bill.Status = BillStatusClosed

\* C2: in every state reachable from a Bill built with no items, no two items have the
\* same idempotency key and no item has an empty idempotency key.
C2_KeysDistinctAndNonEmpty ==
    /\ \A i, j \in 1..Len(bill.Items) :
          i # j => bill.Items[i].IdempotencyKey # bill.Items[j].IdempotencyKey
    /\ \A i \in 1..Len(bill.Items) : bill.Items[i].IdempotencyKey # ""

\* both keys are stored, and the last call offered one of them again
C2_Witness ==
    /\ Len(bill.Items) = MaxKeys
    /\ last.op = "AddItem"
    /\ HasKey(bill.Items, last.key)
    /\ ~last.changed

\* C3: on an OPEN Bill that already holds an item with key k, AddItem(k, any description,
\* any amount, any time) returns success and leaves the Bill (items, Total, UpdatedAt)
\* as it was, so the item first stored for k is the one retained.
C3_AddItemIdempotentPerKey ==
    /\ \A in \in AddItemInputs :
          (bill.Status = BillStatusOpen /\ HasKey(bill.Items, in[1]))
              => AddItemOn(bill, in) = Res(bill, Nil)
    /\ (last.op = "AddItem" /\ last.from = BillStatusOpen /\ last.err = Nil /\ ~last.changed)
          => HasKey(bill.Items, last.key)

\* key k1 was stored at time 1 as "fee" and offered again at time 2
C3_Witness ==
    /\ last.op = "AddItem" /\ last.err = Nil /\ ~last.changed /\ last.now = 2
    /\ bill.Status = BillStatusOpen
    /\ Len(bill.Items) = 1
    /\ bill.Items[1].IdempotencyKey = last.key
    /\ bill.Items[1].Description = "fee"
    /\ bill.UpdatedAt = 1

\* C4: AddItem with a non-empty key on a Bill whose status is not OPEN returns
\* ErrBillNotOpen and leaves every field of the Bill unchanged, also when the key is
\* already in the Bill.
C4_AddItemRejectedUnlessOpen ==
    /\ \A in \in AddItemInputs :
          (in[1] # "" /\ bill.Status # BillStatusOpen)
              => AddItemOn(bill, in) = Res(bill, ErrBillNotOpen)
    /\ (last.op = "AddItem" /\ last.key # "" /\ last.from # BillStatusOpen)
          => (last.err = ErrBillNotOpen /\ ~last.changed)

\* a key the CLOSED Bill already holds was offered again
C4_Witness ==
    /\ last.op = "AddItem" /\ last.err = ErrBillNotOpen
    /\ bill.Status = BillStatusClosed
    /\ HasKey(bill.Items, last.key)

\* the transition table of the claim
TransitionTable ==
    {<<BillStatusUnknown, BillStatusError>>,
     <<BillStatusOpen, BillStatusPending>>, <<BillStatusOpen, BillStatusError>>,
     <<BillStatusPending, BillStatusClosed>>, <<BillStatusPending, BillStatusError>>,
     <<BillStatusError, BillStatusError>>}

\* C5: Transition(to) succeeds, setting the status to `to`, exactly when `to` is the
\* current status or the pair is in the table; otherwise it returns
\* ErrInvalidTransition and the Bill is unchanged.
C5_TransitionFollowsTable ==
    /\ \A to \in BillStatuses :
          LET r == Transition(bill, to) IN
          IF to = bill.Status \/ <<bill.Status, to>> \in TransitionTable
          THEN r = Res([bill EXCEPT !.Status = to], Nil)
          ELSE r = Res(bill, ErrInvalidTransition)
    /\ (last.op = "Transition" /\ last.err # Nil)
          => (last.err = ErrInvalidTransition /\ ~last.changed /\ bill.Status = last.from)

\* the self-transition of a CLOSED Bill was accepted
C5_Witness ==
    /\ last.op = "Transition" /\ last.err = Nil
    /\ last.from = BillStatusClosed
    /\ bill.Status = BillStatusClosed

\* C10: Error(now) is a no-op only when the status is already ERROR; applied to an OPEN
\* or a PENDING Bill it sets FinalizedAt to `now` and moves the status to ERROR.
C10_ErrorMovesOpenAndPendingToError ==
    /\ (last.op = "Error" /\ last.from \in {BillStatusOpen, BillStatusPending})
          => (bill.Status = BillStatusError /\ bill.FinalizedAt = <<last.now>>)
    /\ (last.op = "Error" /\ ~last.changed) => last.from = BillStatusError

-----------------------------------------------------------------------------
(* The workflow: properties                                                *)

\* the workflow built its Bill and is past Build
Built == pc \in {"select", "finalize"} \/ (pc = "done" /\ ret.bill # ZeroBill)

\* C6: in the workflow, once the Bill has left OPEN no add-item signal, however late or
\* duplicated, changes items or Total; the Bill returned holds exactly the items
\* accepted when the close signal was processed, and a late signal does not make the
\* workflow fail: it fails only when the activity does.
C6_LateAddItemChangesNothing ==
    [][/\ (Built /\ bill.Status # BillStatusOpen)
            => (bill'.Items = bill.Items /\ bill'.Total = bill.Total)
       /\ (pc' = "done" /\ activity' # <<>>)
            => /\ ret'.bill.Items = activity'[1].Items
               /\ ret'.bill.Total = activity'[1].Total
               /\ ret'.err = IF hist'.outcome = "error" THEN ErrFinalization ELSE Nil]_vars

\* the workflow returned a CLOSED Bill of one item while an add-item signal with another
\* key is still in the channel
C6_Witness ==
    /\ pc = "done"
    /\ ret.bill.Status = BillStatusClosed
    /\ ret.err = Nil
    /\ Len(ret.bill.Items) = 1
    /\ Len(addItemCh) = 1
    /\ addItemCh[1].IdempotencyKey \notin {"", ret.bill.Items[1].IdempotencyKey}

\* the sum of the magnitudes of the first payload received for each non-empty key
RECURSIVE SumOfFirst(_, _)
SumOfFirst(received, seen) ==
    IF received = <<>> THEN 0
    ELSE LET pl == Head(received) IN
         IF pl.IdempotencyKey = "" \/ pl.IdempotencyKey \in seen
         THEN SumOfFirst(Tail(received), seen)
         ELSE pl.Amount.value
              + SumOfFirst(Tail(received), seen \cup {pl.IdempotencyKey})

\* C7: whatever add-item signals the workflow has received, a key delivered any number of
\* times, interleaved with other keys, has exactly one item in the Bill, and Total
\* counts the amount first received for it exactly once.
C7_DuplicateDeliveryCountsOnce ==
    Built =>
        /\ \A n \in 1..Len(hist.received) :
              LET k == hist.received[n].IdempotencyKey IN
              k # "" => Cardinality({i \in 1..Len(bill.Items) :
                                        bill.Items[i].IdempotencyKey = k}) = 1
        /\ bill.Total.value = SumOfFirst(hist.received, {})

\* one key was received, then another, then the first again with another amount
C7_Witness ==
    /\ Len(hist.received) = 3
    /\ hist.received[1].IdempotencyKey # ""
    /\ hist.received[2].IdempotencyKey \notin {"", hist.received[1].IdempotencyKey}
    /\ hist.received[3].IdempotencyKey = hist.received[1].IdempotencyKey
    /\ hist.received[3].Amount.value # hist.received[1].Amount.value
    /\ Len(bill.Items) = 2

\* C8: when a close signal was processed on the OPEN Bill and the finalization step then
\* succeeded, the workflow returns without error a Bill whose status is CLOSED and whose
\* FinalizedAt is set, the status having gone OPEN, PENDING, CLOSED.
C8_CloseThenFinalizedReturnsClosed ==
    (pc = "done" /\ hist.outcome = "ok") =>
        /\ ret.err = Nil
        /\ ret.bill = bill
        /\ ret.bill.Status = BillStatusClosed
        /\ ret.bill.FinalizedAt = <<env.now>>
        /\ hist.statuses = <<BillStatusOpen, BillStatusPending, BillStatusClosed>>

C8_Witness ==
    /\ pc = "done"
    /\ hist.outcome = "ok"
    /\ Len(ret.bill.Items) = 2
    /\ ret.bill.UpdatedAt = 2

\* C9: when the finalization step fails, the workflow moves the Bill to ERROR and returns
\* that Bill, with status ERROR, together with the finalization error.
C9_FailedFinalizationReturnsErrorBill ==
    (pc = "done" /\ hist.outcome = "error") =>
        /\ ret.err = ErrFinalization
        /\ ret.bill = bill
        /\ ret.bill.Status = BillStatusError

\* C11: in every execution, whatever signals were sent and in whatever order, the
\* finalization activity is started at most once, never while the Bill is OPEN, and the
\* Bill it is started with, which is the workflow's Bill at that moment, is PENDING.
C11_FinalizationStartedOnceWhenPending ==
    /\ Len(activity) <= 1
    /\ \A i \in 1..Len(activity) : activity[i].Status = BillStatusPending
    /\ bill.Status = BillStatusOpen => activity = <<>>
    /\ pc = "finalize" => activity = <<bill>>
    /\ activity # <<>> => pc \in {"finalize", "done"}

\* the activity was started once although two close signals were sent, the second one
\* still in its channel when the workflow returned
C11_Witness ==
    /\ pc = "done"
    /\ Len(activity) = 1
    /\ closeCh = 1
    /\ Len(hist.received) = 1

\* the items the add-item signals received so far were accepted as: the first payload of
\* each non-empty key, in the order received
RECURSIVE AcceptedItems(_, _)
AcceptedItems(received, seen) ==
    IF received = <<>> THEN <<>>
    ELSE LET pl == Head(received) IN
         IF pl.IdempotencyKey = "" \/ pl.IdempotencyKey \in seen
         THEN AcceptedItems(Tail(received), seen)
         ELSE <<[IdempotencyKey |-> pl.IdempotencyKey, Description |-> pl.Description,
                 value |-> pl.Amount.value]>>
              \o AcceptedItems(Tail(received), seen \cup {pl.IdempotencyKey})

\* C12: the Bill handed to the finalization step is PENDING, holds every item accepted
\* during accrual in the order of acceptance, and has a Total equal to the sum of those
\* items; the Bill the workflow finally returns has the same items and the same Total.
C12_FinalizationGetsAllAcceptedItems ==
    activity # <<>> =>
        LET b == activity[1] IN
        /\ b.Status = BillStatusPending
        /\ [i \in 1..Len(b.Items) |->
               [IdempotencyKey |-> b.Items[i].IdempotencyKey,
                Description |-> b.Items[i].Description,
                value |-> b.Items[i].Amount.value]] = AcceptedItems(hist.received, {})
        /\ b.Total.value = SumOfFirst(hist.received, {})
        /\ b.Total = RecalcTotal(b)
        /\ pc = "done" => ret.bill.Items = b.Items /\ ret.bill.Total = b.Total

\* finalization was handed the two items of two add-item signals, the second accepted
\* at a later time than the first, and the workflow has returned
C12_Witness ==
    /\ pc = "done"
    /\ Len(activity) = 1
    /\ Len(activity[1].Items) = 2
    /\ activity[1].Items[1].AddedAt < activity[1].Items[2].AddedAt
    /\ activity[1].Total.value # 0

\* C18: Close(t) on a PENDING Bill moves the status to CLOSED and sets FinalizedAt and
\* UpdatedAt to t, leaving items and Total as they were; Close on an OPEN, ERROR or
\* UNKNOWN Bill returns ErrInvalidTransition and leaves status, FinalizedAt and UpdatedAt
\* as they were.
C18_ClosePendingOnly ==
    /\ \A t \in Times :
          LET r == Close(bill, t) IN
          /\ bill.Status = BillStatusPending =>
                /\ r.err = Nil
                /\ r.bill.Status = BillStatusClosed
                /\ r.bill.FinalizedAt = <<t>>
                /\ r.bill.UpdatedAt = t
                /\ r.bill.Items = bill.Items
                /\ r.bill.Total = bill.Total
          /\ bill.Status \in {BillStatusOpen, BillStatusError, BillStatusUnknown} =>
                /\ r.err = ErrInvalidTransition
                /\ r.bill.Status = bill.Status
                /\ r.bill.FinalizedAt = bill.FinalizedAt
                /\ r.bill.UpdatedAt = bill.UpdatedAt
    /\ (last.op = "Close" /\ last.from = BillStatusPending) =>
          /\ last.err = Nil
          /\ bill.Status = BillStatusClosed
          /\ bill.FinalizedAt = <<last.now>>
          /\ bill.UpdatedAt = last.now
    /\ (last.op = "Close" /\ last.from \in {BillStatusOpen, BillStatusError,
                                             BillStatusUnknown}) =>
          /\ last.err = ErrInvalidTransition
          /\ ~last.changed
          /\ bill.Status = last.from

\* Close was called at time 2 on a PENDING Bill of two items last touched at time 1
C18_Witness ==
    /\ last.op = "Close"
    /\ last.from = BillStatusPending
    /\ last.now = 2
    /\ bill.Status = BillStatusClosed
    /\ Len(bill.Items) = 2
    /\ \A i \in 1..2 : bill.Items[i].AddedAt = 1

\* C19: once a Bill is CLOSED or ERROR, no call of AddItem, Pending, Close or Error
\* changes its status, its items or its Total; the only call that succeeds with an effect
\* is Close on a CLOSED Bill, the self-transition, and it changes UpdatedAt and
\* FinalizedAt only.
C19_TerminalBillKeepsStatusItemsTotal ==
    [][bill.Status \in {BillStatusClosed, BillStatusError} =>
          /\ bill'.Status = bill.Status
          /\ bill'.Items = bill.Items
          /\ bill'.Total = bill.Total
          /\ bill' # bill =>
                /\ bill.Status = BillStatusClosed
                /\ last'.op = "Close"
                /\ last'.err = Nil
                /\ bill' = [bill EXCEPT !.UpdatedAt = last'.now,
                                        !.FinalizedAt = <<last'.now>>]]_vars

\* Close was called on a CLOSED Bill of one item at a later time and moved its timestamps
C19_Witness ==
    /\ last.op = "Close"
    /\ last.from = BillStatusClosed
    /\ last.err = Nil
    /\ last.changed
    /\ bill.Status = BillStatusClosed
    /\ Len(bill.Items) = 1

\* C20: line items are append-only: after any Bill operation the item list before it is
\* a prefix of the item list after it, every item already there keeping its key,
\* description, amount and AddedAt, and the list is longer by at most one item.
C20_ItemsAppendOnly ==
    [][/\ Len(bill'.Items) \in {Len(bill.Items), Len(bill.Items) + 1}
       /\ \A i \in 1..Len(bill.Items) :
             /\ bill'.Items[i].IdempotencyKey = bill.Items[i].IdempotencyKey
             /\ bill'.Items[i].Description = bill.Items[i].Description
             /\ bill'.Items[i].Amount = bill.Items[i].Amount
             /\ bill'.Items[i].AddedAt = bill.Items[i].AddedAt]_vars

\* AddItem appended a second item, at a later time than the first
C20_Witness ==
    /\ last.op = "AddItem"
    /\ last.changed
    /\ Len(bill.Items) = 2
    /\ bill.Items[1].AddedAt = 1
    /\ bill.Items[2].AddedAt = 2
    /\ bill.Items[2].IdempotencyKey = last.key

\* the kind of the event a step of the workflow has just processed
Processed(h) == h.log[Len(h.log)].kind

\* C14: a failed search-attribute upsert neither blocks nor undoes a state transition:
\* when it fails after an accepted add-item, the item stays in the Bill and the accrual
\* loop goes on; when it fails after the move to PENDING, finalization is started all the
\* same; when it fails after the move to CLOSED, the workflow still returns the CLOSED
\* Bill without error.
C14_FailedUpsertDoesNotBlock ==
    [][hist'.upsertsFailed > hist.upsertsFailed =>
          /\ Processed(hist') = "add" =>
                /\ HasKey(bill'.Items, hist'.log[Len(hist'.log)].pl.IdempotencyKey)
                /\ bill' = AddItem(bill, Head(addItemCh).IdempotencyKey,
                                   Head(addItemCh).Description, Head(addItemCh).Amount,
                                   env.now).bill
                /\ bill'.Status = BillStatusOpen
                /\ pc' = "select"
          /\ Processed(hist') = "close" =>
                /\ bill'.Status = BillStatusPending
                /\ bill'.Items = bill.Items
                /\ pc' = "finalize"
                /\ activity' = <<bill'>>
          /\ Processed(hist') = "completed" =>
                /\ bill'.Status = BillStatusClosed
                /\ pc' = "done"
                /\ ret' = Res(bill', Nil)]_vars

\* the upserts after an add-item, after the move to PENDING and after the move to CLOSED
\* all failed, and the workflow returned the CLOSED Bill with its item
C14_Witness ==
    /\ pc = "done"
    /\ hist.upserts = 3
    /\ hist.upsertsFailed = 3
    /\ sa.BillStatus = BillStatusOpen
    /\ ret.err = Nil
    /\ ret.bill.Status = BillStatusClosed
    /\ Len(ret.bill.Items) = 1

\* C15: no add-item or close signal, whatever its payload, the empty idempotency key
\* included, makes the workflow return an error: an add-item that AddItem rejects leaves
\* the Bill as it was, projects nothing, and the loop waits for the next event; the only
\* steps after which the workflow has returned an error are the one that builds the Bill
\* and the failed finalization.
C15_SignalsNeverFailTheWorkflow ==
    [][/\ (Len(hist'.log) > Len(hist.log) /\ Processed(hist') \in {"add", "close"}) =>
             /\ ret'.err = Nil
             /\ pc' \in {"select", "finalize"}
       /\ (Len(hist'.log) > Len(hist.log) /\ Processed(hist') = "add"
             /\ AddItem(bill, Head(addItemCh).IdempotencyKey, Head(addItemCh).Description,
                        Head(addItemCh).Amount, env.now).err # Nil) =>
             /\ bill' = bill
             /\ sa' = sa
             /\ hist'.upserts = hist.upserts
             /\ pc' = "select"
       /\ (ret'.err # Nil /\ ret.err = Nil) =>
             /\ Len(hist'.log) > Len(hist.log)
             /\ Processed(hist') \in {"start", "failed"}
             /\ Processed(hist') = "start" => ret'.bill = ZeroBill
             /\ Processed(hist') = "failed" => ret'.err = ErrFinalization]_vars

\* an add-item signal with an empty key was processed on a Bill of one item, and the
\* workflow, closed after it, returned without error
C15_Witness ==
    /\ pc = "done"
    /\ ret.err = Nil
    /\ Len(hist.received) = 2
    /\ hist.received[1].IdempotencyKey # ""
    /\ hist.received[2].IdempotencyKey = ""
    /\ Len(ret.bill.Items) = 1
    /\ hist.upserts = 3

\* C13: the snapshot query never changes the Bill; answered between events it returns id,
\* customer, currency, period, status, items, Total and timestamps equal to the current
\* Bill, so it shows every event processed so far and never a half-applied one (its
\* Total is the sum of its items); a snapshot once returned is not altered by the events
\* processed after it.
C13_QueryReturnsCurrentBill ==
    [][/\ snapshot' # snapshot =>
             LET dto == snapshot'[1] IN
             /\ bill' = bill
             /\ hist' = hist
             /\ dto.ID = bill.ID
             /\ dto.CustomerID = bill.CustomerID
             /\ dto.Currency = bill.Currency
             /\ dto.BillingPeriod = bill.BillingPeriod
             /\ dto.Status = bill.Status
             /\ Len(dto.Items) = Len(bill.Items)
             /\ \A i \in 1..Len(bill.Items) :
                   /\ dto.Items[i].IdempotencyKey = bill.Items[i].IdempotencyKey
                   /\ dto.Items[i].Description = bill.Items[i].Description
                   /\ dto.Items[i].Amount = bill.Items[i].Amount
                   /\ dto.Items[i].AddedAt = bill.Items[i].AddedAt
             /\ dto.Total = bill.Total
             /\ dto.CreatedAt = bill.CreatedAt
             /\ dto.UpdatedAt = bill.UpdatedAt
             /\ dto.ClosedAt = bill.FinalizedAt
             /\ Len(dto.Items) = Len(AcceptedItems(hist.received, {}))
             /\ dto.Total.value = SumOfFirst(hist.received, {})
             /\ dto.Status = hist.statuses[Len(hist.statuses)]
       /\ (bill' # bill \/ hist' # hist) => snapshot' = snapshot]_vars

\* a query was answered when the Bill was OPEN with one item; the close and the
\* finalization were processed later, and the snapshot still shows the OPEN Bill
C13_Witness ==
    /\ snapshot # <<>>
    /\ snapshot[1].Status = BillStatusOpen
    /\ Len(snapshot[1].Items) = 1
    /\ snapshot[1].Total = snapshot[1].Items[1].Amount
    /\ snapshot[1].ClosedAt = <<>>
    /\ bill.Status = BillStatusClosed
    /\ bill.UpdatedAt > snapshot[1].UpdatedAt

\* what one event of the history does to the Bill and to the workflow's result, given
\* the creation parameters
ApplyEvent(p, st, ev) ==
    CASE ev.kind = "start" ->
            LET r == Build([NewBillBuilder EXCEPT !.id = p.BillID,
                                                  !.customerID = p.CustomerID,
                                                  !.period = p.Period,
                                                  !.currency = p.Currency,
                                                  !.createdAt = <<ev.now>>])
            IN IF r.err # Nil THEN [bill |-> st.bill, ret |-> Res(ZeroBill, r.err)]
               ELSE [bill |-> r.bill, ret |-> st.ret]
      [] ev.kind = "add" ->
            LET r == AddItem(st.bill, ev.pl.IdempotencyKey, ev.pl.Description,
                             ev.pl.Amount, ev.now)
            IN [bill |-> IF r.err = Nil THEN r.bill ELSE st.bill, ret |-> st.ret]
      [] ev.kind = "close" ->
            LET r == Pending(st.bill, ev.now)
            IN [bill |-> IF r.err = Nil THEN r.bill ELSE st.bill, ret |-> st.ret]
      [] ev.kind = "completed" ->
            LET r == Close(st.bill, ev.now)
            IN [bill |-> r.bill, ret |-> Res(r.bill, Nil)]
      [] ev.kind = "failed" ->
            LET r == Error(st.bill, ev.now)
            IN [bill |-> r.bill, ret |-> Res(r.bill, ErrFinalization)]

\* the Bill and the result after the events of a history, in their order
RECURSIVE Replay(_, _, _)
Replay(p, st, log) ==
    IF log = <<>> THEN st
    ELSE Replay(p, ApplyEvent(p, st, Head(log)), Tail(log))

\* C17: the workflow is a deterministic function of its creation parameters and of the
\* ordered event history (add-item signals, close signals, the timestamps the substrate
\* supplied, the finalization result): at every point of every run the Bill and the
\* result are the ones that replaying the history from the parameters gives, so two runs
\* with the same parameters and history pass through the same Bill states and return
\* the same result.
C17_StateIsFunctionOfHistory ==
    LET st == Replay(params, [bill |-> ZeroBill, ret |-> Res(ZeroBill, Nil)], hist.log)
    IN /\ bill = st.bill
       /\ ret = st.ret
       /\ pc = "done" <=> (hist.log # <<>> /\ (ret.err # Nil \/ ~IsActive(bill))
                            /\ Processed(hist) \in {"start", "completed", "failed"})

\* a history of four events with the clock moving between them, one add-item received
\* before an upsert failed, ended by a successful finalization
C17_Witness ==
    /\ pc = "done"
    /\ Len(hist.log) = 4
    /\ hist.log[1].now < hist.log[4].now
    /\ Processed(hist) = "completed"
    /\ hist.upsertsFailed > 0
    /\ Len(bill.Items) = 1

\* C16: however Create requests for the same (customerId, period) interleave, at most
\* one starts a workflow instance; every other one, a request made after the instance has
\* completed included, starts nothing and fails, with ErrBillWithPeriodAlreadyStarted
\* when the substrate answers it (that error being distinct from the wrapped error a
\* start that fails for another reason returns), and leaves the existing Bill as it was.
C16_AtMostOneCreateStarts ==
    [][starts'.requests > starts.requests =>
          /\ starts'.started <= 1
          /\ starts'.err = Nil =>
                /\ pc = "absent"
                /\ pc' = "start"
                /\ starts.started = 0
                /\ starts'.started = 1
          /\ pc # "absent" =>
                /\ starts'.err # Nil
                /\ starts'.started = starts.started
                /\ starts'.reply # "temporal connection error" =>
                      starts'.err = ErrBillWithPeriodAlreadyStarted
                /\ starts'.reply = "temporal connection error" =>
                      /\ starts'.err = ErrWorkflowStart
                      /\ starts'.err # ErrBillWithPeriodAlreadyStarted
                /\ <<bill, pc, addItemCh, closeCh, sa, ret, activity, hist>>'
                      = <<bill, pc, addItemCh, closeCh, sa, ret, activity, hist>>]_vars

\* the instance started by the first request was closed and has completed, and a second
\* request, made afterwards, was refused as a duplicate
C16_Witness ==
    /\ pc = "done"
    /\ ret.bill.Status = BillStatusClosed
    /\ starts.requests = 2
    /\ starts.started = 1
    /\ starts.err = ErrBillWithPeriodAlreadyStarted

\* C21: every item AddItem stores, and the Bill's Total, carry the Bill's currency
\* whatever currency the supplied amount was tagged with (USD, GEL or None), and the
\* stored magnitude is the supplied magnitude, with no conversion.
C21_ItemsAndTotalCarryBillCurrency ==
    /\ bill.Total.currency = bill.Currency
    /\ \A i \in 1..Len(bill.Items) : bill.Items[i].Amount.currency = bill.Currency
    /\ \A in \in AddItemInputs :
          LET r == AddItemOn(bill, in) IN
          Len(r.bill.Items) = Len(bill.Items) + 1 =>
              /\ r.bill.Items[Len(r.bill.Items)].Amount = Money(in[2].value, bill.Currency)
              /\ r.bill.Total = Money(bill.Total.value + in[2].value, bill.Currency)

\* a GEL Bill holds two items, of 10.50 and of -0.005, offered under any of the tags
C21_Witness ==
    /\ bill.Currency = CurrencyGEL
    /\ last.op = "AddItem"
    /\ last.changed
    /\ Len(bill.Items) = 2
    /\ bill.Items[1].Amount = Money(10500, CurrencyGEL)
    /\ bill.Items[2].Amount = Money(-5, CurrencyGEL)
    /\ bill.Total = Money(10495, CurrencyGEL)

\* C22: AddItem with an empty idempotency key returns ErrEmptyIdempotencyKey and leaves
\* the Bill as it was, whatever the Bill's status: the empty-key test comes before the
\* not-open test.
C22_EmptyKeyRejectedInEveryStatus ==
    /\ \A in \in AddItemInputs :
          in[1] = "" =>
              /\ AddItemOn(bill, in).err = ErrEmptyIdempotencyKey
              /\ AddItemOn(bill, in).bill = bill
    /\ (last.op = "AddItem" /\ last.key = "") =>
          /\ last.err = ErrEmptyIdempotencyKey
          /\ ~last.changed
          /\ bill.Status = last.from

\* AddItem was called with the empty key on a CLOSED Bill that holds an item
C22_Witness ==
    /\ last.op = "AddItem"
    /\ last.key = ""
    /\ last.from = BillStatusClosed
    /\ last.err = ErrEmptyIdempotencyKey
    /\ Len(bill.Items) = 1

-----------------------------------------------------------------------------
(* The functions: properties                                               *)

\* C27: MakeBillID(customerId, period) is exactly "bill/" followed by customerId, "/" and
\* period, for every input, the empty strings included, and is the same on every call
\* with the same arguments.
C27_MakeBillIDIsTheConcatenation ==
    /\ call.fn = "MakeBillID" =>
          LET c == call.args[1]
              p == call.args[2]
              id == call.out
          IN /\ Len(id) = 5 + Len(c) + 1 + Len(p)
             /\ SubSeq(id, 1, 5) = <<"b", "i", "l", "l", "/">>
             /\ SubSeq(id, 6, 5 + Len(c)) = c
             /\ id[6 + Len(c)] = "/"
             /\ SubSeq(id, 7 + Len(c), Len(id)) = p
             /\ id = MakeBillID(c, p)
    /\ MakeBillID(<<>>, <<>>) = <<"b", "i", "l", "l", "/", "/">>

\* MakeBillID was applied to customer "c1" and period "2025-01"
C27_Witness ==
    /\ call.fn = "MakeBillID"
    /\ call.args = <<Customer1, Period202501>>
    /\ call.out = <<"b", "i", "l", "l", "/", "c", "1", "/", "2", "0", "2", "5", "-", "0", "1">>

\* four digits, a hyphen and a month 01..12
WellFormedPeriod(p) ==
    /\ Len(p) = 7
    /\ {p[1], p[2], p[3], p[4]} \subseteq Digits
    /\ p[5] = "-"
    /\ <<p[6], p[7]>> \in {<<"0", "1">>, <<"0", "2">>, <<"0", "3">>, <<"0", "4">>,
                            <<"0", "5">>, <<"0", "6">>, <<"0", "7">>, <<"0", "8">>,
                            <<"0", "9">>, <<"1", "0">>, <<"1", "1">>, <<"1", "2">>}

\* the sum of the magnitudes of items
RECURSIVE SumOfAmounts(_)
SumOfAmounts(items) ==
    IF items = <<>> THEN 0 ELSE Head(items).Amount.value + SumOfAmounts(Tail(items))

\* C28: Build fails exactly when the id is empty, the customer id is empty, the currency
\* is not USD or GEL, the period is not four digits, a hyphen and a month 01..12, or no
\* created-at was supplied; on success the Bill has the configured status (OPEN by
\* default), UpdatedAt equal to CreatedAt, FinalizedAt unset, the supplied items, and a
\* Total equal to the sum of their amounts.
C28_BuildRequiresItsFields ==
    /\ call.fn = "Build" =>
          LET bb == call.args[1]
              r == call.out
          IN /\ r.err # Nil <=>
                    \/ bb.id = <<>>
                    \/ bb.customerID = <<>>
                    \/ bb.currency \notin {CurrencyUSD, CurrencyGEL}
                    \/ ~WellFormedPeriod(bb.period)
                    \/ bb.createdAt = <<>>
             /\ r.err = Nil =>
                    /\ r.bill.ID = bb.id
                    /\ r.bill.CustomerID = bb.customerID
                    /\ r.bill.Currency = bb.currency
                    /\ r.bill.BillingPeriod = bb.period
                    /\ r.bill.Status = bb.status
                    /\ r.bill.CreatedAt = bb.createdAt[1]
                    /\ r.bill.UpdatedAt = r.bill.CreatedAt
                    /\ r.bill.FinalizedAt = <<>>
                    /\ r.bill.Items = bb.items
                    /\ r.bill.Total = Money(SumOfAmounts(bb.items), bb.currency)
    /\ NewBillBuilder.status = BillStatusOpen

\* Build succeeded for a builder set to CLOSED with two items, one tagged USD and one
\* None, in a GEL Bill
C28_Witness ==
    /\ call.fn = "Build"
    /\ call.out.err = Nil
    /\ call.args[1].status = BillStatusClosed
    /\ call.args[1].currency = CurrencyGEL
    /\ Len(call.out.bill.Items) = 2
    /\ call.out.bill.Total = Money(10495, CurrencyGEL)

\* C29: moneyToCents(m) is m x 100 rounded to the nearest integer, a tie going away from
\* zero, for positive and negative amounts alike: 10.50 -> 1050, 0.01 -> 1, 0.005 -> 1,
\* -0.005 -> -1. With m in thousandths, m x 100 is m.value / 10 cents.
C29_MoneyToCentsRoundsHalfAwayFromZero ==
    /\ call.fn = "moneyToCents" =>
          LET v == call.args[1].value
              cents == call.out
          IN /\ 10 * cents - v \in -5..5
             /\ 10 * cents - v = 5 => v > 0
             /\ 10 * cents - v = -5 => v < 0
    /\ moneyToCents(Money(10500, CurrencyUSD)) = 1050
    /\ moneyToCents(Money(10, CurrencyUSD)) = 1
    /\ moneyToCents(Money(5, CurrencyUSD)) = 1
    /\ moneyToCents(Money(-5, CurrencyUSD)) = -1

\* moneyToCents was applied to -0.015, a tie below zero, and gave -2
C29_Witness ==
    /\ call.fn = "moneyToCents"
    /\ call.args[1].value = -15
    /\ call.out = -2

\* C30: dividing a Money by a Money whose value is zero yields an error outcome and does
\* not panic. (Money.Div has no error result and lets decimal.Decimal.Div panic.)
C30_DivByZeroIsAnErrorNotAPanic ==
    (call.fn = "Div" /\ call.args[2].value = 0) =>
        /\ call.out.panic = Nil
        /\ call.out.err # Nil

-----------------------------------------------------------------------------
(* The use cases: properties                                               *)

\* the keys of the items of a Bill
KeysOf(b) == {b.Items[i].IdempotencyKey : i \in 1..Len(b.Items)}

\* a step in which the use case of a client, and not a signal of another client, puts a
\* payload on the add-item channel
UseCaseSendsAddItem ==
    /\ Len(addItemCh') = Len(addItemCh) + 1
    /\ env'.sent = env.sent

\* C23: the AddLineItem use case sends the add-item signal only after a query showed the
\* Bill OPEN and without the item's idempotency key. When the query failed it returns the
\* query's error, when the Bill was not OPEN ErrBillAlreadyClosed, when the key was there
\* ErrLineItemAlreadyAdded, and in the three cases it makes no other call on the port and
\* nothing is put on the channel.
C23_AddLineItemSignalsOnlyAfterOpenQueryWithoutKey ==
    /\ [](uc.op = "AddLineItem" =>
            LET q == uc.calls[1]
                key == uc.cmd.Item.IdempotencyKey
                refused == \/ q.err # Nil
                           \/ q.bill.Status # BillStatusOpen
                           \/ key \in KeysOf(q.bill)
            IN /\ q.port = "QueryBill"
               /\ q.err # Nil => uc.err = q.err
               /\ (q.err = Nil /\ q.bill.Status # BillStatusOpen) =>
                      uc.err = ErrBillAlreadyClosed
               /\ (q.err = Nil /\ q.bill.Status = BillStatusOpen /\ key \in KeysOf(q.bill)) =>
                      uc.err = ErrLineItemAlreadyAdded
               /\ refused => (uc.at = "returned" /\ Len(uc.calls) = 1 /\ uc.bill = ZeroBill)
               /\ \A i \in 1..Len(uc.calls) :
                      uc.calls[i].port = "AddLineItem" => (i = 2 /\ ~refused))
    /\ [][UseCaseSendsAddItem =>
            /\ uc.op = "AddLineItem"
            /\ uc.at = "signal"
            /\ uc.calls[1].err = Nil
            /\ uc.calls[1].bill.Status = BillStatusOpen
            /\ uc.cmd.Item.IdempotencyKey \notin KeysOf(uc.calls[1].bill)
            /\ addItemCh' = Append(addItemCh, uc.cmd.Item)]_vars

\* the use case found the Bill OPEN with the key of its item already there, the workflow
\* having accepted an item with that key, and returned without a signal
C23_Witness ==
    /\ uc.op = "AddLineItem"
    /\ uc.at = "returned"
    /\ uc.err = ErrLineItemAlreadyAdded
    /\ uc.calls[1].bill.Status = BillStatusOpen
    /\ Len(uc.calls) = 1
    /\ addItemCh = <<>>
    /\ Len(hist.received) = 1
    /\ env.sent = 3

\* a step in which the use case of a client, and not a signal of another client, puts a
\* signal on the close channel
UseCaseSendsClose ==
    /\ closeCh' = closeCh + 1
    /\ env'.sent = env.sent

\* C24: the CloseBill use case sends the close signal only after a query showed the Bill
\* OPEN. For a queried status of PENDING, CLOSED or ERROR it returns ErrBillAlreadyClosed,
\* for a failed query the query's error, and in those cases it sends no close signal;
\* after a successful signal it returns what a second query returns.
C24_CloseBillSignalsOnlyAfterOpenQuery ==
    /\ [](/\ \A b \in TestBills :
                b.Status \in {BillStatusPending, BillStatusClosed, BillStatusError} =>
                    CloseBillTest(Res(b, Nil)) = ErrBillAlreadyClosed
          /\ uc.op = "CloseBill" =>
                LET q == uc.calls[1]
                    refused == q.err # Nil \/ q.bill.Status # BillStatusOpen
                IN /\ q.port = "QueryBill"
                   /\ q.err # Nil => uc.err = q.err
                   /\ (q.err = Nil /\ q.bill.Status # BillStatusOpen) =>
                          uc.err = ErrBillAlreadyClosed
                   /\ refused => (uc.at = "returned" /\ Len(uc.calls) = 1
                                  /\ uc.bill = ZeroBill)
                   /\ \A i \in 1..Len(uc.calls) :
                          uc.calls[i].port = "CloseBill" => (i = 2 /\ ~refused))
    /\ [][/\ UseCaseSendsClose =>
                /\ uc.op = "CloseBill"
                /\ uc.at = "signal"
                /\ uc.calls[1].err = Nil
                /\ uc.calls[1].bill.Status = BillStatusOpen
          /\ (uc.op = "CloseBill" /\ uc.at = "query" /\ uc'.at = "returned") =>
                LET q == QueryBill(MakeBillID(uc.cmd.CustomerID, uc.cmd.Period))
                IN /\ uc.calls[2].port = "CloseBill"
                   /\ uc.calls[2].err = Nil
                   /\ uc'.bill = q.bill
                   /\ uc'.err = q.err
                   /\ UNCHANGED <<bill, pc, params, hist, closeCh>>]_vars

\* the use case found the Bill PENDING, a close signal having been handled before, and
\* returned ErrBillAlreadyClosed without a signal
C24_Witness ==
    /\ uc.op = "CloseBill"
    /\ uc.at = "returned"
    /\ uc.err = ErrBillAlreadyClosed
    /\ uc.calls[1].bill.Status = BillStatusPending
    /\ Len(uc.calls) = 1
    /\ closeCh = 0
    /\ pc = "finalize"

\* C25: the CreateBill use case starts the workflow with BillID = MakeBillID(customer,
\* period) and PeriodYYYYMM = year * 100 + month; a period that is not a strict YYYY-MM
\* is rejected before any start is attempted, a failed start is returned without a query,
\* and the Bill is queried only after a successful start.
\* (A period padded with spaces passes ToYYYYMM, which trims it, and is started untrimmed.)
C25_CreateBillValidatesThenStartsThenQueries ==
    uc.op = "CreateBill" =>
        LET period == uc.cmd.Period
            year == DigitValue(period[1]) * 1000 + DigitValue(period[2]) * 100
                    + DigitValue(period[3]) * 10 + DigitValue(period[4])
            month == DigitValue(period[6]) * 10 + DigitValue(period[7])
        IN /\ ~WellFormedPeriod(period) =>
                  (uc.calls = <<>> /\ uc.at = "returned" /\ uc.err = ErrPeriodFormatting)
           /\ uc.calls # <<>> =>
                  /\ uc.calls[1].port = "StartMonthlyBill"
                  /\ uc.calls[1].params.BillID = MakeBillID(uc.cmd.CustomerID, period)
                  /\ uc.calls[1].params.PeriodYYYYMM = year * 100 + month
                  /\ uc.calls[1].err # Nil =>
                         (Len(uc.calls) = 1 /\ uc.at = "returned"
                          /\ uc.err = uc.calls[1].err)
           /\ \A i \in 1..Len(uc.calls) :
                  uc.calls[i].port = "QueryBill" => (i = 2 /\ uc.calls[1].err = Nil)

-----------------------------------------------------------------------------
(* SearchBill: properties                                                  *)

\* year * 100 + month of a well-formed period
YearTimes100PlusMonth(p) ==
    (DigitValue(p[1]) * 1000 + DigitValue(p[2]) * 100 + DigitValue(p[3]) * 10
     + DigitValue(p[4])) * 100 + DigitValue(p[6]) * 10 + DigitValue(p[7])

\* the bound the claim gives for a period that is empty or well formed
BoundOf(p) == IF p = <<>> THEN <<>> ELSE <<YearTimes100PlusMonth(p)>>

\* C26: the SearchBill use case passes the statuses {OPEN, PENDING} when the requested
\* status is OPEN and exactly {status} otherwise; an empty from/to period is no bound
\* (nil) and no error, a valid YYYY-MM period is the bound year * 100 + month, and a
\* period that is not a strict YYYY-MM returns an error without a search being issued.
\* (A period padded with spaces is trimmed by ToYYYYMMNullable and searched for.)
C26_SearchBillBuildsItsFilter ==
    call.fn = "SearchBill" =>
        LET c == call.args[1]
            out == call.out
            malformed == \/ c.PeriodFrom # <<>> /\ ~WellFormedPeriod(c.PeriodFrom)
                         \/ c.PeriodTo # <<>> /\ ~WellFormedPeriod(c.PeriodTo)
        IN IF malformed
           THEN out.filters = <<>> /\ out.err # Nil
           ELSE /\ Len(out.filters) = 1
                /\ {out.filters[1].Status[i] : i \in 1..Len(out.filters[1].Status)}
                     = IF c.Status = BillStatusOpen
                       THEN {BillStatusOpen, BillStatusPending}
                       ELSE {c.Status}
                /\ out.filters[1].FromYYYYMM = BoundOf(c.PeriodFrom)
                /\ out.filters[1].ToYYYYMM = BoundOf(c.PeriodTo)

-----------------------------------------------------------------------------
(* The Bill: Pending, the two predicates, FinalizedAt                      *)

\* C34: Pending(t) on an OPEN Bill moves the status to PENDING and sets UpdatedAt to t,
\* leaving items, Total and FinalizedAt as they were; Pending on a CLOSED or ERROR Bill
\* returns ErrInvalidTransition and leaves status and UpdatedAt as they were; after a
\* Pending that succeeded IsActive is false and IsReadyForInvoicing is true, the two
\* predicates being true exactly for OPEN and exactly for PENDING.
C34_PendingMovesOpenToPending ==
    /\ IsActive(bill) <=> bill.Status = BillStatusOpen
    /\ IsReadyForInvoicing(bill) <=> bill.Status = BillStatusPending
    /\ \A t \in Times :
          LET r == Pending(bill, t) IN
          /\ bill.Status = BillStatusOpen =>
                /\ r.err = Nil
                /\ r.bill = [bill EXCEPT !.Status = BillStatusPending, !.UpdatedAt = t]
                /\ ~IsActive(r.bill)
                /\ IsReadyForInvoicing(r.bill)
          /\ bill.Status \in {BillStatusClosed, BillStatusError} =>
                /\ r.err = ErrInvalidTransition
                /\ r.bill.Status = bill.Status
                /\ r.bill.UpdatedAt = bill.UpdatedAt
    /\ (last.op = "Pending" /\ last.from = BillStatusOpen) =>
          /\ last.err = Nil
          /\ bill.Status = BillStatusPending
          /\ bill.UpdatedAt = last.now
          /\ ~IsActive(bill)
          /\ IsReadyForInvoicing(bill)
    /\ (last.op = "Pending" /\ last.from \in {BillStatusClosed, BillStatusError}) =>
          /\ last.err = ErrInvalidTransition
          /\ ~last.changed
          /\ bill.Status = last.from

\* Pending was called at time 2 on an OPEN Bill of one item added at time 1
C34_Witness ==
    /\ last.op = "Pending"
    /\ last.from = BillStatusOpen
    /\ last.now = 2
    /\ bill.Status = BillStatusPending
    /\ bill.UpdatedAt = 2
    /\ Len(bill.Items) = 1
    /\ bill.Items[1].AddedAt = 1

\* C38: in every state reachable from a freshly built OPEN Bill through AddItem, Pending,
\* Close and Error, FinalizedAt is set if and only if the status is CLOSED or ERROR.
C38_FinalizedAtIffClosedOrError ==
    bill.FinalizedAt # <<>> <=> bill.Status \in {BillStatusClosed, BillStatusError}

\* a Bill that went OPEN, PENDING, CLOSED: the last call is the Close that stamped it
C38_Witness ==
    /\ last.op = "Close"
    /\ last.from = BillStatusPending
    /\ bill.Status = BillStatusClosed
    /\ bill.FinalizedAt = <<last.now>>
    /\ Len(bill.Items) = 1

-----------------------------------------------------------------------------
(* The workflow: item order, projections, the exit of the loop             *)

\* the add-item events of a history that carry a key for the first time, in order, each
\* with the time at which it was processed
RECURSIVE FirstOccurrences(_, _)
FirstOccurrences(log, seen) ==
    IF log = <<>> THEN <<>>
    ELSE LET ev == Head(log) IN
         IF ev.kind # "add" \/ ev.pl.IdempotencyKey = "" \/ ev.pl.IdempotencyKey \in seen
         THEN FirstOccurrences(Tail(log), seen)
         ELSE <<[IdempotencyKey |-> ev.pl.IdempotencyKey,
                 Description |-> ev.pl.Description,
                 value |-> ev.pl.Amount.value,
                 AddedAt |-> ev.now]>>
              \o FirstOccurrences(Tail(log), seen \cup {ev.pl.IdempotencyKey})

\* C32: the Bill's items are in the order in which the workflow first accepted each
\* idempotency key: for add-item signals processed in the order s1, s2, ... the item list
\* is, at every moment, the subsequence of the first occurrences of each key, each item
\* as its first signal carried it and stamped with the time that signal was processed.
C32_ItemsAreFirstOccurrencesInOrder ==
    [i \in 1..Len(bill.Items) |->
        [IdempotencyKey |-> bill.Items[i].IdempotencyKey,
         Description |-> bill.Items[i].Description,
         value |-> bill.Items[i].Amount.value,
         AddedAt |-> bill.Items[i].AddedAt]] = FirstOccurrences(hist.log, {})

\* three add-item signals were processed, the third with the key of the first and
\* another description: the Bill holds two items
C32_Witness ==
    /\ Len(hist.received) = 3
    /\ hist.received[1].IdempotencyKey = hist.received[3].IdempotencyKey
    /\ hist.received[1].Description # hist.received[3].Description
    /\ hist.received[2].IdempotencyKey \notin {"", hist.received[1].IdempotencyKey}
    /\ Len(bill.Items) = 2
    /\ bill.Items[1].IdempotencyKey = hist.received[1].IdempotencyKey

\* the add-item events of a history after which the callback upserts the item attributes:
\* those AddItem returned nil for, a key seen before included
ItemUpserts(log) ==
    Cardinality({i \in 1..Len(log) : log[i].kind = "add" /\ log[i].pl.IdempotencyKey # ""})

\* C33: when finalization fails, the workflow attempts a status projection of the Bill's
\* resulting status before it returns, just as after a successful finalization: once the
\* activity's outcome is known and the workflow has returned, the upserts attempted are
\* those of the add-item callbacks, the one of the close callback and the one that
\* follows the finalization.
\* (The branch for a failed finalization returns after bill.Error without an upsert.)
C33_StatusProjectedAfterFinalizationEitherWay ==
    (pc = "done" /\ hist.outcome \in {"ok", "error"}) =>
        hist.upserts = ItemUpserts(hist.log) + 2

\* C35: whenever the workflow is waiting for its next event or has returned, and every
\* visibility upsert attempted so far succeeded, the projected attributes equal the Bill:
\* BillStatus is the Bill's status, BillItemCount the number of its items, BillTotalCents
\* moneyToCents(Total), from OPEN, 0, 0 at creation on.
\* (An execution whose parameters Build rejects returns Bill{} and stays projected OPEN.)
C35_ProjectionEqualsBill ==
    (pc \in {"select", "finalize", "done"} /\ hist.upsertsFailed = 0) =>
        LET b == IF pc = "done" THEN ret.bill ELSE bill IN
        /\ sa.BillStatus = b.Status
        /\ sa.BillItemCount = Len(b.Items)
        /\ sa.BillTotalCents = moneyToCents(b.Total)

\* C37: whenever the accrual loop exits the Bill's status is PENDING. The loop is left
\* only through a close signal processed with success, so the early return for a Bill that
\* is not ready for invoicing is never taken, and a workflow whose Bill was built never
\* returns before it has processed a close signal.
C37_LoopExitsOnlyThroughClose ==
    /\ [][(pc \in {"start", "select"} /\ pc' \notin {"start", "select"}
           /\ hist'.statuses # <<>>) =>
            /\ pc = "select"
            /\ pc' = "finalize"
            /\ bill.Status = BillStatusOpen
            /\ bill'.Status = BillStatusPending
            /\ hist'.log = Append(hist.log, Event("close", env.now, NoPayload))]_vars
    /\ []((pc = "done" /\ hist.statuses # <<>>) =>
            /\ \E i \in 1..Len(hist.log) : hist.log[i].kind = "close"
            /\ Len(activity) = 1
            /\ activity[1].Status = BillStatusPending
            /\ hist.outcome \in {"ok", "error"})

\* the loop was left after two add-item signals and a close signal, and the workflow has
\* returned
C37_Witness ==
    /\ pc = "done"
    /\ Len(hist.log) = 5
    /\ hist.log[2].kind = "add"
    /\ hist.log[3].kind = "add"
    /\ hist.log[4].kind = "close"
    /\ Len(ret.bill.Items) = 2
    /\ activity[1].Status = BillStatusPending

-----------------------------------------------------------------------------
(* The use cases under concurrency                                         *)

\* C36: for any interleaving of concurrent AddLineItem and CloseBill calls on the same
\* Bill, if AddLineItem.Handle returns without error then the Bill it returns holds an item
\* with the command's idempotency key (a command with a key, the empty key being refused
\* by the Bill).
\* (A close signal handled between the handler's query and its signal leaves the item out.)
C36_AddLineItemReturnsBillWithItsItem ==
    (/\ uc.op = "AddLineItem"
     /\ uc.at = "returned"
     /\ uc.err = Nil
     /\ uc.cmd.Item.IdempotencyKey # "") =>
        uc.cmd.Item.IdempotencyKey \in KeysOf(uc.bill)

-----------------------------------------------------------------------------
(* Period numbers and Bill ids: properties                                 *)

\* valid period strings, the first and last of the years 0000 to 9999 among them
ValidPeriods ==
    {Period202501,
     <<"0", "0", "0", "0", "-", "0", "1">>,
     <<"0", "9", "9", "9", "-", "1", "2">>,
     <<"1", "0", "0", "0", "-", "0", "1">>,
     <<"9", "9", "9", "9", "-", "1", "2">>}

\* C39: billingPeriodNumToString returns the zero-padded "YYYY-MM" string for every
\* n = year * 100 + month with year in 0000..9999 and month in 1..12, so that
\* billingPeriodNumToString(ToYYYYMM(p)) = p for every valid period string p, and returns
\* a formatting-error marker for every other n.
\* (The range test starts at 100001, the year 1000: earlier years get the range marker.)
C39_PeriodNumToStringInvertsToYYYYMM ==
    call.fn = "billingPeriodNumToString" =>
        LET n == call.args[1]
            inRange == n >= 0 /\ n \div 100 \in 0..9999 /\ n % 100 \in 1..12
        IN /\ \A p \in ValidPeriods :
                 (WellFormedPeriod(p) /\ ToYYYYMM(p).value = n) => call.out = p
           /\ IF inRange
              THEN /\ WellFormedPeriod(call.out)
                   /\ ToYYYYMM(call.out).value = n
              ELSE call.out \in {ErrFormattingRange, ErrFormattingMonth}

\* C40: for periods that pass the strict YYYY-MM validation MakeBillID is injective: two
\* (customerId, period) pairs that differ in the customer id or in the period never give
\* the same Bill id, which the gateway uses as the workflow id.
C40_MakeBillIDInjectiveOnValidPeriods ==
    (/\ call.fn = "MakeBillID twice"
     /\ reYYYYMM(call.args[2])
     /\ reYYYYMM(call.args[4])
     /\ <<call.args[1], call.args[2]>> # <<call.args[3], call.args[4]>>) =>
        call.out[1] # call.out[2]

\* the ids of customer "c1/2025-01" and of customer "c1" for the same valid period, which
\* differ; and, outside the claim, "a" with "b/2025-01" gives the id of "a/b" with "2025-01"
C40_Witness ==
    /\ call.fn = "MakeBillID twice"
    /\ call.args[1] = Customer1 \o <<"/">> \o Period202501
    /\ call.args[3] = Customer1
    /\ call.args[2] = call.args[4]
    /\ reYYYYMM(call.args[2])
    /\ call.out[1] # call.out[2]
    /\ MakeBillID(<<"a">>, <<"b", "/">> \o Period202501)
         = MakeBillID(<<"a", "/", "b">>, Period202501)

-----------------------------------------------------------------------------
(* The workflow: termination                                               *)

\* C31: with the event loop scheduled fairly and a finalization activity that eventually
\* returns, with success or with failure, a workflow whose Bill is OPEN and to which a
\* close signal has been delivered eventually leaves the accrual loop, invokes the
\* finalization and terminates, whatever add-item signals are pending.
C31_CloseLeadsToFinalizationAndReturn ==
    (pc = "select" /\ bill.Status = BillStatusOpen /\ closeCh > 0)
        ~> (/\ pc = "done"
            /\ Len(activity) = 1
            /\ activity[1].Status = BillStatusPending
            /\ hist.outcome \in {"ok", "error"})

\* a close signal is waiting on an OPEN Bill while two add-item signals are pending
C31_Witness ==
    /\ pc = "select"
    /\ bill.Status = BillStatusOpen
    /\ closeCh = 1
    /\ Len(addItemCh) = 2

====
